---- MODULE Spec2Model ----
(***************************************************************************)
(* Verification model of the VoiceAI backend: the appointment store and    *)
(* the tool executor (services/tools/executor.py, api/appointments.py),    *)
(* the Redis session manager (core/session_manager.py), the voice          *)
(* WebSocket handler and its agent loop (api/voice.py) and the LLM proxy   *)
(* agent loop (api/llm_proxy.py).                                          *)
(*                                                                         *)
(* Several specifications share the variables below; each one drives the   *)
(* part of the state it is about and leaves the rest unchanged.            *)
(***************************************************************************)
EXTENDS Integers, Sequences, FiniteSets, TLC

VARIABLES
    appts,        \* appointments table: row id (1..Len) -> row
    lastResult,   \* result dict returned by the last ToolExecutor call
    summaries,    \* conversation_summaries table: the rows inserted, in order
    writers,      \* concurrent writers on the table (position + locals)
    sessions,     \* Redis hashes voice:sessions:<id>
    history,      \* Redis lists voice:conversations:<id> (<<>> = no key)
    costs,        \* Redis values voice:costs:<id>
    appended,     \* every entry pushed on a list since its key was created
    endpoint,     \* the endpoint the modelled request runs: /ws/voice or the LLM proxy
    pc,           \* position of the handler
    sid,          \* voice_ws: local session_id ("none" = None)
    user,         \* user id the tool executor is bound to (0 = none)
    wsAlive,      \* the client side of the WebSocket is still connected
    closeCode,    \* code the server closed the WebSocket with (0 = not closed)
    cause,        \* how the handler left its try block
    events,       \* server -> client events sent, in order
    msg,          \* last client message read
    dg,           \* the connection's DeepgramStreamingClient
    audio_started,\* audio_start_time is not None
    turn,         \* locals of the agent loop of the current turn
    answer,       \* (text, should_end_call) the agent loop returned
    llm_messages  \* chat_completions: local llm_messages list

storeVars == <<appts, lastResult, summaries>>
txVars == <<writers>>
redisVars == <<sessions, history, costs, appended>>
connVars == <<endpoint, pc, sid, user, wsAlive, closeCode, cause, events, msg, dg,
              audio_started, turn, answer, llm_messages>>
vars == <<appts, lastResult, summaries, writers, sessions, history, costs, appended,
          endpoint, pc, sid, user, wsAlive, closeCode, cause, events, msg, dg,
          audio_started, turn, answer, llm_messages>>

(***************************************************************************)
(* Bounds of the model                                                     *)
(***************************************************************************)
MaxAppts == 2          \* rows the appointments table may hold
MaxVaried == 3         \* leading add_message calls whose role is left open
MaxOverflow == 3       \* add_message calls made beyond the history cap

(***************************************************************************)
(* Appointment store and tool executor                                     *)
(***************************************************************************)
Users == {1, 2}

\* "today" and "tomorrow" as %Y-%m-%d strings on the day the model runs
TodayDate == "2026-01-21"
TomorrowDate == "2026-01-22"

\* date arguments a tool call may carry
DateInputs ==
    { [kind |-> "today", value |-> ""],
      [kind |-> "tomorrow", value |-> ""],
      [kind |-> "iso", value |-> "2026-01-22"],
      [kind |-> "bad", value |-> "someday"] }

NoDate == "ValueError"

\* _parse_date: relative words, then the %Y-%m-%d format, else ValueError
ParseDate(d) ==
    CASE d.kind = "today" -> TodayDate
      [] d.kind = "tomorrow" -> TomorrowDate
      [] d.kind = "iso" -> d.value
      [] OTHER -> NoDate

\* time arguments: digits before ":" (hour), digits after (minute, -1 when
\* the string has no ":"), the am/pm marker, or text that int() rejects
TimeInputs ==
    { [hour |-> 2, minute |-> -1, mer |-> "pm", junk |-> FALSE],     \* "2pm"
      [hour |-> 14, minute |-> 0, mer |-> "", junk |-> FALSE],       \* "14:00"
      [hour |-> 9, minute |-> -1, mer |-> "am", junk |-> FALSE],     \* "9 am"
      [hour |-> 12, minute |-> 0, mer |-> "am", junk |-> FALSE],     \* "12:00am"
      [hour |-> 0, minute |-> 0, mer |-> "", junk |-> TRUE] }        \* "noon"

JunkTime == <<-1, -1>>

\* a normalisation that drops the am/pm marker without using it
NormalizeTimeNoMeridiem(t) ==
    IF t.junk THEN JunkTime
    ELSE <<t.hour, IF t.minute = -1 THEN 0 ELSE t.minute>>

\* _normalize_time: 24-hour <<HH, MM>>; the input itself when int() fails
NormalizeTime(t) ==
    IF t.junk THEN JunkTime
    ELSE LET minute == IF t.minute = -1 THEN 0 ELSE t.minute
             hour == IF t.mer = "pm" /\ t.hour < 12 THEN t.hour + 12
                     ELSE IF t.mer = "am" /\ t.hour = 12 THEN 0
                     ELSE t.hour
         IN <<hour, minute>>

AVAILABLE_SLOTS ==
    { <<9, 0>>, <<10, 0>>, <<11, 0>>, <<14, 0>>,
      <<15, 0>>, <<16, 0>>, <<17, 0>>, <<18, 0>> }

Row(u, d, t, st) == [user_id |-> u, date |-> d, time |-> t, status |-> st]

\* _get_booked_slots_from_db: times of the scheduled rows on a date,
\* leaving out row exclude_id when it is given (0 = not given)
BookedSlots(store, date, exclude_id) ==
    { store[i].time : i \in { j \in DOMAIN store :
          /\ store[j].date = date
          /\ store[j].status = "scheduled"
          /\ (exclude_id # 0 => j # exclude_id) } }

\* _get_user_appointments_from_db: the row ids of one user
UserAppointments(store, u) == { i \in DOMAIN store : store[i].user_id = u }

Fail(err) == [success |-> FALSE, error |-> err, appointment_id |-> 0]
Ok(id) == [success |-> TRUE, error |-> "", appointment_id |-> id]

\* validation part of _execute_book_appointment (lines 199-219)
BookArgsError(d, t) ==
    IF ParseDate(d) = NoDate THEN "invalid_date"
    ELSE IF NormalizeTime(t) \notin AVAILABLE_SLOTS THEN "invalid_slot"
    ELSE ""

\* a slot check that queries today's bookings whatever date is asked for
SlotTakenTodayOnly(store, date, time) == time \in BookedSlots(store, TodayDate, 0)

\* the slot check of _execute_book_appointment (lines 223-230)
SlotTaken(store, date, time) == time \in BookedSlots(store, date, 0)

\* the same-user check of _execute_book_appointment (lines 234-242)
UserHasSlot(store, u, date, time) ==
    \E i \in UserAppointments(store, u) :
        /\ store[i].date = date
        /\ store[i].time = time
        /\ store[i].status = "scheduled"

\* insert of a scheduled row (lines 246-258)
InsertScheduled(store, u, date, time) ==
    Append(store, Row(u, date, time, "scheduled"))

\* _execute_book_appointment as one call: <<store after, result>>
BookAppointment(store, u, d, t) ==
    LET date == ParseDate(d)
        time == NormalizeTime(t)
    IN  IF BookArgsError(d, t) # "" THEN <<store, Fail(BookArgsError(d, t))>>
        ELSE IF SlotTaken(store, date, time) THEN <<store, Fail("already_booked")>>
        ELSE IF UserHasSlot(store, u, date, time) THEN <<store, Fail("user_has_slot")>>
        ELSE <<InsertScheduled(store, u, date, time), Ok(Len(store) + 1)>>

\* a cancel without the test of lines 355-360
CancelAppointmentAgain(store, u, id) ==
    IF id \notin DOMAIN store THEN <<store, Fail("not_found")>>
    ELSE IF store[id].user_id # u THEN <<store, Fail("not_owner")>>
    ELSE <<[store EXCEPT ![id].status = "cancelled"], Ok(id)>>

\* a cancel without the ownership test of lines 348-353
CancelAppointmentAnyOwner(store, u, id) ==
    IF id \notin DOMAIN store THEN <<store, Fail("not_found")>>
    ELSE IF store[id].status = "cancelled" THEN <<store, Fail("already_cancelled")>>
    ELSE <<[store EXCEPT ![id].status = "cancelled"], Ok(id)>>

\* _execute_cancel_appointment: <<store after, result>>
CancelAppointment(store, u, id) ==
    IF id \notin DOMAIN store THEN <<store, Fail("not_found")>>
    ELSE IF store[id].user_id # u THEN <<store, Fail("not_owner")>>
    ELSE IF store[id].status = "cancelled" THEN <<store, Fail("already_cancelled")>>
    ELSE <<[store EXCEPT ![id].status = "cancelled"], Ok(id)>>

NoArg == [kind |-> "none", value |-> ""]
NoTime == [hour |-> 0, minute |-> 0, mer |-> "", junk |-> FALSE, none |-> TRUE]

HasDate(d) == d.kind # "none"
HasTime(t) == "none" \notin DOMAIN t

\* target date / time of _execute_modify_appointment (lines 435-454)
TargetDate(row, nd) == IF HasDate(nd) THEN ParseDate(nd) ELSE row.date
TargetTime(row, nt) == IF HasTime(nt) THEN NormalizeTime(nt) ELSE row.time

\* the checks of _execute_modify_appointment before the availability query
ModifyArgsError(store, u, id, nd, nt) ==
    IF ~HasDate(nd) /\ ~HasTime(nt) THEN "nothing_to_change"
    ELSE IF id \notin DOMAIN store THEN "not_found"
    ELSE IF store[id].user_id # u THEN "not_owner"
    ELSE IF store[id].status = "cancelled" THEN "cancelled"
    ELSE IF HasDate(nd) /\ ParseDate(nd) = NoDate THEN "invalid_date"
    ELSE IF HasTime(nt) /\ NormalizeTime(nt) \notin AVAILABLE_SLOTS THEN "invalid_slot"
    ELSE ""

\* availability query of _execute_modify_appointment (lines 458-466)
ModifySlotTaken(store, id, date, time) == time \in BookedSlots(store, date, id)

\* the update of lines 469-472
UpdateSlot(store, id, date, time) ==
    [store EXCEPT ![id].date = date, ![id].time = time]

\* _execute_modify_appointment as one call: <<store after, result>>
ModifyAppointment(store, u, id, nd, nt) ==
    IF ModifyArgsError(store, u, id, nd, nt) # ""
    THEN <<store, Fail(ModifyArgsError(store, u, id, nd, nt))>>
    ELSE LET date == TargetDate(store[id], nd)
             time == TargetTime(store[id], nt)
         IN  IF ModifySlotTaken(store, id, date, time)
             THEN <<store, Fail("already_booked")>>
             ELSE <<UpdateSlot(store, id, date, time), Ok(id)>>

NoResult == [success |-> FALSE, error |-> "none", appointment_id |-> 0]

\* ids a tool call may name: the rows that can exist and one that cannot
ApptIds == 1..(MaxAppts + 1)

NewDates == DateInputs \cup {NoArg}
NewTimes == TimeInputs \cup {NoTime}


(***************************************************************************)
(* Session store (RedisSessionManager)                                     *)
(***************************************************************************)
SessionIds == {"sess_a", "sess_b"}

\* the conversation id the LLM proxy tracks costs under
ProxyConversation == "conv_1"
CostKeys == SessionIds \cup {ProxyConversation}

NoSession == [exists |-> FALSE, status |-> "", ws_active |-> FALSE, user_contact |-> ""]

\* create_session followed by set_user and set_status (initiate_call)
NewSession(contact) ==
    [exists |-> TRUE, status |-> "greet_ready", ws_active |-> FALSE, user_contact |-> contact]

NoCost == [exists |-> FALSE, stt_requests |-> 0, llm_requests |-> 0, tts_requests |-> 0,
           llm_input_tokens |-> 0, llm_output_tokens |-> 0, tts_characters |-> 0,
           stt_audio_seconds |-> 0, tavus_seconds |-> 0]

HistoryCap == 100

\* ltrim(key, 0, n-1): the first n entries
LTrimFirst(list, n) == SubSeq(list, 1, IF Len(list) < n THEN Len(list) ELSE n)

\* ltrim(key, -n, -1): the last n entries
LTrimLast(list, n) ==
    IF Len(list) <= n THEN list ELSE SubSeq(list, Len(list) - n + 1, Len(list))

NoCalls == <<>>
NoId == <<0, 0>>

\* the message dict of add_message: optional fields are left out when falsy
Message(role, content, tool_calls, tool_call_id, name) ==
    [role |-> role, content |-> content, tool_calls |-> tool_calls,
     tool_call_id |-> tool_call_id, name |-> name]

SystemMessage(prompt) == Message("system", prompt, NoCalls, NoId, "")

\* init_conversation: delete the list, push the system prompt
InitConversation(hist, s, prompt) == [hist EXCEPT ![s] = <<SystemMessage(prompt)>>]

\* add_message: rpush, then ltrim(key, -100, -1)
AddMessage(hist, s, m) == [hist EXCEPT ![s] = LTrimLast(Append(hist[s], m), HistoryCap)]

\* the untrimmed log behind a list
LogInit(log, s, prompt) == [log EXCEPT ![s] = <<SystemMessage(prompt)>>]
LogAdd(log, s, m) == [log EXCEPT ![s] = Append(log[s], m)]

InitRedis ==
    /\ sessions = [s \in SessionIds |-> NoSession]
    /\ history = [s \in SessionIds |-> <<>>]
    /\ costs = [s \in CostKeys |-> NoCost]
    /\ appended = [s \in SessionIds |-> <<>>]


(***************************************************************************)
(* Connection state shared by the voice handler and the LLM proxy          *)
(***************************************************************************)
\* a DeepgramStreamingClient: none created, connected, down (connect failed
\* or the upstream socket dropped) or closed; leaked counts clients that
\* were replaced without close()
NoDg == [state |-> "none", buffer |-> 0, transcript |-> "", leaked |-> 0]

\* locals of one run of the agent loop (running and executed record which
\* tool executions are in progress and which have completed, llm_failed
\* that a generate call of the configured provider raised in this turn)
NoTurn == [kind |-> "none", iteration |-> 0, rounds |-> 0, end_conversation |-> FALSE,
           batch |-> <<>>, k |-> 0, running |-> {}, executed |-> <<>>, mock |-> FALSE,
           base |-> 0, capped |-> FALSE, prompt_tokens |-> 0, completion_tokens |-> 0,
           llm_failed |-> FALSE]

NoAnswer == [text |-> "", should_end_call |-> FALSE]

NoMsg == [type |-> "none", session_id |-> "none", token |-> "", text |-> ""]

\* no request is being served
InitConnIdle ==
    /\ endpoint = "none"
    /\ pc = "idle"
    /\ sid = "none"
    /\ user = 0
    /\ wsAlive = FALSE
    /\ closeCode = 0
    /\ cause = "none"
    /\ events = <<>>
    /\ msg = NoMsg
    /\ dg = NoDg
    /\ audio_started = FALSE
    /\ turn = NoTurn
    /\ answer = NoAnswer
    /\ llm_messages = <<>>

(***************************************************************************)
(* SpecTools: tool calls executed one at a time, by any user               *)
(***************************************************************************)
InitStore ==
    /\ appts = <<>>
    /\ lastResult = NoResult
    /\ summaries = <<>>

InitWriters == writers = [w \in {} |-> 0]

InitTools == InitStore /\ InitWriters /\ InitRedis /\ InitConnIdle

book_appointment(u, d, t) ==
    /\ Len(appts) < MaxAppts
    /\ appts' = BookAppointment(appts, u, d, t)[1]
    /\ lastResult' = BookAppointment(appts, u, d, t)[2]
    /\ UNCHANGED <<summaries, txVars, redisVars, connVars>>

cancel_appointment(u, id) ==
    /\ appts' = CancelAppointment(appts, u, id)[1]
    /\ lastResult' = CancelAppointment(appts, u, id)[2]
    /\ UNCHANGED <<summaries, txVars, redisVars, connVars>>

modify_appointment(u, id, nd, nt) ==
    /\ appts' = ModifyAppointment(appts, u, id, nd, nt)[1]
    /\ lastResult' = ModifyAppointment(appts, u, id, nd, nt)[2]
    /\ UNCHANGED <<summaries, txVars, redisVars, connVars>>

NextTools ==
    \/ \E u \in Users, d \in DateInputs, t \in TimeInputs : book_appointment(u, d, t)
    \/ \E u \in Users, id \in ApptIds : cancel_appointment(u, id)
    \/ \E u \in Users, id \in ApptIds, nd \in NewDates, nt \in NewTimes :
           modify_appointment(u, id, nd, nt)

SpecTools == InitTools /\ [][NextTools]_vars

ScheduledAt(store, date, time) ==
    { i \in DOMAIN store :
        store[i].status = "scheduled" /\ store[i].date = date /\ store[i].time = time }

\* C1: after any sequence of book / cancel / modify calls executed one at a
\* time from an empty store, every (date, time) pair has at most one
\* scheduled appointment, and so has every (user, date, time) triple.
C1_NoDoubleBooking ==
    \A i \in DOMAIN appts, j \in DOMAIN appts :
        (/\ i # j
         /\ appts[i].status = "scheduled"
         /\ appts[j].status = "scheduled"
         /\ appts[i].date = appts[j].date)
        => appts[i].time # appts[j].time

\* two users hold scheduled appointments on one date and the last call, a
\* booking or a move onto a held slot, was refused
C1_Witness ==
    /\ lastResult.error = "already_booked"
    /\ \E i \in DOMAIN appts, j \in DOMAIN appts :
          /\ i # j
          /\ appts[i].status = "scheduled" /\ appts[j].status = "scheduled"
          /\ appts[i].date = appts[j].date
          /\ appts[i].user_id # appts[j].user_id

(***************************************************************************)
(* SpecConc: writers in different server processes on the shared table.    *)
(* Every query of the executor opens its own SessionLocal(), so a writer's *)
(* reads and its commit are separate database transactions; the REST       *)
(* endpoint reads and commits in one session without any row or table      *)
(* lock, so another writer's commit can fall between the two.              *)
(***************************************************************************)
Writers == {"session_a", "session_b"}

\* slots a REST client may post (the endpoint stores the strings as given)
RestDates == {TodayDate, TomorrowDate}
RestTimes == {<<14, 0>>, <<9, 0>>}

\* arguments the concurrent sessions send
ConcDates == { d \in DateInputs : d.kind \in {"today", "tomorrow"} }
ConcTimes == { t \in TimeInputs : t.mer \in {"am", "pm"} /\ t.minute = -1 }

\* a session's executor is bound to the user authenticated on its connection
WriterUser == [w \in Writers |-> IF w = "session_a" THEN 1 ELSE 2]

Idle == [pc |-> "idle", id |-> 0, date |-> "", time |-> <<0, 0>>]

InitConc ==
    /\ InitStore
    /\ InitRedis
    /\ InitConnIdle
    /\ writers = [w \in Writers |-> Idle]

Finish(w) == writers' = [writers EXCEPT ![w] = Idle]

\* book_appointment up to the availability query (lines 184-230)
BookCheckSlot(w, d, t) ==
    /\ writers[w].pc = "idle"
    /\ Len(appts) < MaxAppts
    /\ IF BookArgsError(d, t) # "" \/ SlotTaken(appts, ParseDate(d), NormalizeTime(t))
       THEN Finish(w)
       ELSE writers' = [writers EXCEPT ![w] =
                [pc |-> "book_slot_free", id |-> 0,
                 date |-> ParseDate(d), time |-> NormalizeTime(t)]]
    /\ UNCHANGED <<storeVars, redisVars, connVars>>

\* the same-user query of book_appointment (lines 234-242)
BookCheckUser(w) ==
    /\ writers[w].pc = "book_slot_free"
    /\ IF UserHasSlot(appts, WriterUser[w], writers[w].date, writers[w].time)
       THEN Finish(w)
       ELSE writers' = [writers EXCEPT ![w].pc = "book_commit"]
    /\ UNCHANGED <<storeVars, redisVars, connVars>>

\* db.add + db.commit of book_appointment (lines 246-258)
BookCommit(w) ==
    /\ writers[w].pc = "book_commit"
    /\ appts' = InsertScheduled(appts, WriterUser[w], writers[w].date, writers[w].time)
    /\ Finish(w)
    /\ UNCHANGED <<lastResult, summaries, redisVars, connVars>>

\* modify_appointment: load of the row and the checks on it (lines 385-454)
ModifyLoad(w, id, nd, nt) ==
    /\ writers[w].pc = "idle"
    /\ IF ModifyArgsError(appts, WriterUser[w], id, nd, nt) # ""
       THEN Finish(w)
       ELSE writers' = [writers EXCEPT ![w] =
                [pc |-> "modify_loaded", id |-> id,
                 date |-> TargetDate(appts[id], nd),
                 time |-> TargetTime(appts[id], nt)]]
    /\ UNCHANGED <<storeVars, redisVars, connVars>>

\* modify_appointment: the availability query (lines 458-466)
ModifyCheckSlot(w) ==
    /\ writers[w].pc = "modify_loaded"
    /\ IF ModifySlotTaken(appts, writers[w].id, writers[w].date, writers[w].time)
       THEN Finish(w)
       ELSE writers' = [writers EXCEPT ![w].pc = "modify_commit"]
    /\ UNCHANGED <<storeVars, redisVars, connVars>>

\* modify_appointment: UPDATE of date and time, commit (lines 469-472)
ModifyCommit(w) ==
    /\ writers[w].pc = "modify_commit"
    /\ appts' = UpdateSlot(appts, writers[w].id, writers[w].date, writers[w].time)
    /\ Finish(w)
    /\ UNCHANGED <<lastResult, summaries, redisVars, connVars>>

\* cancel_appointment: one session, read and UPDATE of one row
CancelTx(w, id) ==
    /\ writers[w].pc = "idle"
    /\ appts' = CancelAppointment(appts, WriterUser[w], id)[1]
    /\ Finish(w)
    /\ UNCHANGED <<lastResult, summaries, redisVars, connVars>>

\* REST create_appointment: the conflict query (appointments.py 19-28)
RestCheck(w, date, time) ==
    /\ writers[w].pc = "idle"
    /\ Len(appts) < MaxAppts
    /\ IF ScheduledAt(appts, date, time) # {}
       THEN Finish(w)
       ELSE writers' = [writers EXCEPT ![w] =
                [pc |-> "rest_commit", id |-> 0,
                 date |-> date, time |-> time]]
    /\ UNCHANGED <<storeVars, redisVars, connVars>>

\* REST create_appointment: db.add + db.commit (appointments.py 30-40)
RestCommit(w) ==
    /\ writers[w].pc = "rest_commit"
    /\ appts' = InsertScheduled(appts, WriterUser[w], writers[w].date, writers[w].time)
    /\ Finish(w)
    /\ UNCHANGED <<lastResult, summaries, redisVars, connVars>>

NextConc ==
    \E w \in Writers :
        \/ \E d \in ConcDates, t \in ConcTimes : BookCheckSlot(w, d, t)
        \/ BookCheckUser(w)
        \/ BookCommit(w)
        \/ \E id \in ApptIds, nd \in ConcDates \cup {NoArg},
                 nt \in ConcTimes \cup {NoTime} : ModifyLoad(w, id, nd, nt)
        \/ ModifyCheckSlot(w)
        \/ ModifyCommit(w)
        \/ \E id \in ApptIds : CancelTx(w, id)
        \/ \E date \in RestDates, time \in RestTimes : RestCheck(w, date, time)
        \/ RestCommit(w)

SpecConc == InitConc /\ [][NextConc]_vars

\* C2: when two concurrent writers target the same free (date, time), at
\* most one of them succeeds, so the store never holds two scheduled
\* appointments for one slot.
C2_AtMostOneWriterWins ==
    \A d \in RestDates, t \in AVAILABLE_SLOTS : Cardinality(ScheduledAt(appts, d, t)) <= 1

(***************************************************************************)
(* SpecRest: tool calls and requests to the REST endpoint POST             *)
(* /appointments, executed one at a time on the shared table               *)
(***************************************************************************)
\* appointment_time strings a REST client may post: the endpoint takes any
\* string, here two catalog slots and "12:30"
PostedTimes == RestTimes \cup { <<12, 30>> }

\* _execute_fetch_slots: the result dict
FetchSlots(store, d) ==
    IF ParseDate(d) = NoDate THEN Fail("invalid_date")
    ELSE LET booked_slots == BookedSlots(store, ParseDate(d), 0)
         IN  [success |-> TRUE, error |-> "", appointment_id |-> 0,
              date |-> ParseDate(d),
              available_slots |-> { slot \in AVAILABLE_SLOTS : slot \notin booked_slots },
              booked_slots |-> booked_slots]

\* REST create_appointment as one request: <<store after, result>>
CreateAppointment(store, u, date, time) ==
    IF ScheduledAt(store, date, time) # {} THEN <<store, Fail("already_booked")>>
    ELSE <<InsertScheduled(store, u, date, time), Ok(Len(store) + 1)>>

fetch_slots(d) ==
    /\ lastResult' = FetchSlots(appts, d)
    /\ UNCHANGED <<appts, summaries, txVars, redisVars, connVars>>

create_appointment(u, date, time) ==
    /\ Len(appts) < MaxAppts
    /\ appts' = CreateAppointment(appts, u, date, time)[1]
    /\ lastResult' = CreateAppointment(appts, u, date, time)[2]
    /\ UNCHANGED <<summaries, txVars, redisVars, connVars>>

NextRest ==
    \/ \E d \in DateInputs : fetch_slots(d)
    \/ \E u \in Users, date \in RestDates, time \in PostedTimes :
           create_appointment(u, date, time)
    \/ \E u \in Users, d \in DateInputs, t \in TimeInputs : book_appointment(u, d, t)
    \/ \E u \in Users, id \in ApptIds : cancel_appointment(u, id)
    \/ \E u \in Users, id \in ApptIds, nd \in NewDates, nt \in NewTimes :
           modify_appointment(u, id, nd, nt)

SpecRest == InitTools /\ [][NextRest]_vars

\* C16: in every reachable state of the appointment store and for every
\* date d, fetch_slots(d) succeeds, its available_slots and booked_slots are
\* disjoint and their union is exactly the 8-slot catalog.
C16_SlotsPartitionCatalog ==
    \A d \in DateInputs :
        ParseDate(d) # NoDate =>
            LET r == FetchSlots(appts, d)
            IN  /\ r.success
                /\ r.available_slots \cap r.booked_slots = {}
                /\ r.available_slots \cup r.booked_slots = AVAILABLE_SLOTS

(***************************************************************************)
(* SpecHist: init_conversation and add_message on one session's list       *)
(***************************************************************************)
HistSession == "sess_a"

SystemPrompts == {"prompt_for_user_1", "prompt_for_user_2"}

\* roles add_message is called with; after the first MaxVaried entries the
\* model keeps to user messages
RolesAt(n) == IF n <= MaxVaried THEN {"user", "assistant", "tool"} ELSE {"user"}

InitHist == InitStore /\ InitWriters /\ InitRedis /\ InitConnIdle

init_conversation(s, prompt) ==
    /\ history' = InitConversation(history, s, prompt)
    /\ appended' = LogInit(appended, s, prompt)
    /\ UNCHANGED <<sessions, costs, storeVars, txVars, connVars>>

add_message(s, role, content) ==
    /\ Len(appended[s]) < HistoryCap + MaxOverflow
    /\ history' = AddMessage(history, s, Message(role, content, NoCalls, NoId, ""))
    /\ appended' = LogAdd(appended, s, Message(role, content, NoCalls, NoId, ""))
    /\ UNCHANGED <<sessions, costs, storeVars, txVars, connVars>>

NextHist ==
    \/ \E p \in SystemPrompts : init_conversation(HistSession, p)
    \/ \E r \in RolesAt(Len(appended[HistSession])) : add_message(HistSession, r, "text")

SpecHist == InitHist /\ [][NextHist]_vars

\* C8: after init_conversation and any number of add_message calls the
\* first entry of the history is still the system prompt written by
\* init_conversation.
C8_SystemPromptKept ==
    \A s \in SessionIds :
        (appended[s] # <<>> /\ appended[s][1].role = "system")
        => (history[s] # <<>> /\ history[s][1] = appended[s][1])

\* C9: after every add_message call the history holds at most 100 entries,
\* and they are the most recent entries pushed, in their original order.
C9_CappedMostRecent ==
    \A s \in SessionIds :
        /\ Len(history[s]) <= HistoryCap
        /\ \A i \in 1..Len(history[s]) :
              history[s][i] = appended[s][Len(appended[s]) - Len(history[s]) + i]
        /\ Len(history[s]) = (IF Len(appended[s]) < HistoryCap
                              THEN Len(appended[s]) ELSE HistoryCap)

\* more than 100 entries were pushed and the list holds exactly 100
C9_Witness ==
    /\ Len(appended[HistSession]) > HistoryCap + 1
    /\ Len(history[HistSession]) = HistoryCap
    /\ \E i \in 1..MaxVaried : appended[HistSession][i + 1].role = "tool"

(***************************************************************************)
(* The voice WebSocket handler voice_ws (api/voice.py)                     *)
(***************************************************************************)
MaxTurns == 1          \* audio responses one connection may send

MAX_TOOL_ITERATIONS == 10
PROXY_MAX_TOOL_ITERATIONS == 5
WS_1000_NORMAL_CLOSURE == 1000
WS_1008_POLICY_VIOLATION == 1008
WS_1011_INTERNAL_ERROR == 1011
BUFFER_SIZE_BYTES == 16384

\* contact numbers of the rows of the users table
ContactOf == [u \in Users |-> IF u = 1 THEN "c1" ELSE "c2"]

\* db.query(User).filter(contact_number == c).first(); 0 = None
UserByContact(c) ==
    IF \E u \in Users : ContactOf[u] = c
    THEN CHOOSE u \in Users : ContactOf[u] = c
    ELSE 0

\* bearer tokens a client may present: one issued to user 1, one issued to
\* an account whose row is gone, and one that does not verify
Tokens == {"tok_c1", "tok_c9", "garbage"}
ValidToken(t) == t \in {"tok_c1", "tok_c9"}
TokenSub(t) == IF t = "tok_c1" THEN "c1" ELSE "c9"

\* what decode_token may do with a token that does not verify: raise,
\* return None, or return a payload without "sub"
InvalidTokenOutcomes == {"raises", "none", "no_sub"}

\* decode_token followed by payload.get("sub", "unknown")
DecodeToken(t, o) ==
    IF ValidToken(t)
    THEN [raised |-> FALSE, none |-> FALSE, sub |-> TokenSub(t)]
    ELSE [raised |-> o = "raises", none |-> o = "none", sub |-> "unknown"]

\* first messages a client may send ("" = key absent or empty)
AuthMessages ==
    [type : {"auth", "ping"}, session_id : SessionIds \cup {""},
     token : Tokens \cup {""}, text : {""}]

\* what a user may say, and what a client may put in a text_input message;
\* Strip is str.strip() on these texts
Utterances == {"check slots"}
TextInputs == {"hello", "  "}
Strip(t) == IF t = "  " THEN "" ELSE t

LoopMessage(type, s, text) == [type |-> type, session_id |-> s, token |-> "", text |-> text]

\* messages a client may send once the handler is in its message loop
LoopMessages ==
    { LoopMessage(ty, s, "") :
          ty \in {"audio_chunk", "end_of_speech", "end_call", "ping"}, s \in SessionIds }
    \cup { LoopMessage("text_input", s, x) : s \in SessionIds, x \in TextInputs }

\* sizes of the audio chunks a client sends
ChunkSizes == {8192}

\* the test of line 444 turned around: the message is for this session
AcceptsAny(m, s) == TRUE

Accepts(m, s) == m.session_id = s

\* "if session_id:" of the finally block
Truthy(s) == s # "none" /\ s # ""

Event(type, id, status, text, flag) ==
    [type |-> type, tool_call_id |-> id, status |-> status, text |-> text,
     should_end_call |-> flag]

\* audio_response events sent so far
Turns(evs) == Cardinality({ i \in DOMAIN evs : evs[i].type = "audio_response" })

\* session_manager.remove: the session hash only
RemoveSession(sess, s) == [sess EXCEPT ![s] = NoSession]

\* a remove that leaves the conversation list in place
KeepConversation(hist, s) == hist

\* session_manager.remove: the conversation list
RemoveConversation(hist, s) == [hist EXCEPT ![s] = <<>>]

\* DeepgramStreamingClient.close
DgClose(d) == IF d.state = "none" THEN d ELSE [d EXCEPT !.state = "closed", !.buffer = 0]

\* a new DeepgramStreamingClient after connect()
DgNew(connected, leaked) ==
    [state |-> IF connected THEN "connected" ELSE "down", buffer |-> 0,
     transcript |-> "", leaked |-> leaked]

\* CostTracker.track_stt / track_llm / track_tts on the record of key k
TrackStt(c, k, seconds) ==
    [c EXCEPT ![k].exists = TRUE, ![k].stt_requests = @ + 1,
              ![k].stt_audio_seconds = @ + seconds]
TrackLlm(c, k, input, output) ==
    [c EXCEPT ![k].exists = TRUE, ![k].llm_requests = @ + 1,
              ![k].llm_input_tokens = @ + input, ![k].llm_output_tokens = @ + output]
TrackTts(c, k, chars) ==
    [c EXCEPT ![k].exists = TRUE, ![k].tts_requests = @ + 1, ![k].tts_characters = @ + chars]

\* what a failed websocket.send_text raises: WebSocketDisconnect or another
\* exception, depending on the server library
SendFailures == {"disconnect", "exception"}

\* close code passed to websocket.close on the way out (0 = close not called)
CloseCodeOf(c) ==
    CASE c = "exception" -> WS_1011_INTERNAL_ERROR
      [] c = "end_call" -> WS_1000_NORMAL_CLOSURE
      [] c = "rejected" -> WS_1008_POLICY_VIOLATION
      [] OTHER -> 0

\* the way out of voice_ws: the except clauses and the finally block, for a
\* handler whose session_id is s and whose store and client are sess, hist, d
Leave(c, s, sess, hist, log, d) ==
    /\ pc' = "done"
    /\ cause' = c
    /\ closeCode' = CloseCodeOf(c)
    /\ dg' = DgClose(d)
    /\ sessions' = IF Truthy(s) THEN RemoveSession(sess, s) ELSE sess
    /\ history' = IF Truthy(s) THEN RemoveConversation(hist, s) ELSE hist
    /\ appended' = IF Truthy(s) THEN RemoveConversation(log, s) ELSE log
\* the system prompt with the user context of user u (lines 393-401)
PromptFor(u) == IF u = 1 THEN "prompt_for_user_1" ELSE "prompt_for_user_2"

\* lines 351-388: why the handshake fails ("" = it does not); "rejected" is
\* close(1008) + return, "exception" an exception that reaches line 745
AuthFailure(m, o, sess) ==
    LET payload == DecodeToken(m.token, o)
    IN  IF m.type # "auth" THEN "rejected"
        ELSE IF m.token = "" \/ m.session_id = "" THEN "rejected"
        ELSE IF payload.raised THEN "exception"
        ELSE IF ~sess[m.session_id].exists THEN "rejected"
        ELSE IF payload.none THEN "exception"
        ELSE IF UserByContact(payload.sub) = 0 THEN "rejected"
        ELSE ""

\* set_user, set_ws_active and set_status of lines 371-373
MarkConnected(sess, s, contact) ==
    [sess EXCEPT ![s] = [@ EXCEPT !.user_contact = contact, !.ws_active = TRUE,
                                  !.status = "connected"]]

\* the handshake up to the ready message (lines 349-434)
Authenticate(m, o, connected) ==
    /\ endpoint = "voice" /\ pc = "accepted" /\ wsAlive
    /\ msg' = m
    /\ sid' = IF m.type = "auth" THEN m.session_id ELSE sid
    /\ LET failure == AuthFailure(m, o, sessions)
           contact == DecodeToken(m.token, o).sub
       IN  IF failure # ""
           THEN /\ Leave(failure, sid', sessions, history, appended, dg)
                /\ UNCHANGED <<user, events>>
           ELSE /\ sessions' = MarkConnected(sessions, m.session_id, contact)
                /\ history' = InitConversation(history, m.session_id,
                                               PromptFor(UserByContact(contact)))
                /\ appended' = LogInit(appended, m.session_id,
                                       PromptFor(UserByContact(contact)))
                /\ user' = UserByContact(contact)
                /\ dg' = DgNew(connected, 0)
                /\ events' = Append(events, Event("ready", NoId, "", "", FALSE))
                /\ pc' = "loop"
                /\ UNCHANGED <<cause, closeCode>>
    /\ UNCHANGED <<storeVars, txVars, costs, endpoint, wsAlive, audio_started, turn,
                   answer, llm_messages>>

\* lines 444-446: a message for another session is skipped
RecvWrongSession(m) ==
    /\ endpoint = "voice" /\ pc = "loop" /\ wsAlive
    /\ ~Accepts(m, sid)
    /\ msg' = m
    /\ UNCHANGED <<storeVars, txVars, redisVars, endpoint, pc, sid, user, wsAlive,
                   closeCode, cause, events, dg, audio_started, turn, answer,
                   llm_messages>>

\* DeepgramStreamingClient.send_audio: buffer, send when the threshold is met
SendAudio(d, size) ==
    IF d.state # "connected" THEN d
    ELSE IF d.buffer + size >= BUFFER_SIZE_BYTES THEN [d EXCEPT !.buffer = 0]
    ELSE [d EXCEPT !.buffer = @ + size]

\* audio_chunk (lines 448-466)
RecvAudioChunk(m, size) ==
    /\ endpoint = "voice" /\ pc = "loop" /\ wsAlive
    /\ Accepts(m, sid) /\ m.type = "audio_chunk"
    /\ msg' = m
    /\ audio_started' = TRUE
    /\ dg' = SendAudio(dg, size)
    /\ UNCHANGED <<storeVars, txVars, redisVars, endpoint, pc, sid, user, wsAlive,
                   closeCode, cause, events, turn, answer, llm_messages>>

\* finish_stream: flush what is buffered
FinishStream(d) == IF d.state = "connected" THEN [d EXCEPT !.buffer = 0] ELSE d

\* end_of_speech up to the call of the agent loop (lines 468-497)
RecvEndOfSpeech(m) ==
    /\ endpoint = "voice" /\ pc = "loop" /\ wsAlive
    /\ Accepts(m, sid) /\ m.type = "end_of_speech"
    /\ Turns(events) < MaxTurns
    /\ msg' = m
    /\ costs' = IF audio_started THEN TrackStt(costs, sid, 3) ELSE costs
    /\ audio_started' = FALSE
    /\ dg' = FinishStream(dg)
    /\ LET final_transcript == IF dg.state = "connected" THEN Strip(dg.transcript) ELSE ""
           entry == Message("user", final_transcript, NoCalls, NoId, "")
       IN  IF final_transcript # ""
           THEN /\ history' = AddMessage(history, sid, entry)
                /\ appended' = LogAdd(appended, sid, entry)
                /\ pc' = "llm"
           ELSE /\ pc' = "respond"
                /\ UNCHANGED <<history, appended>>
    /\ turn' = [NoTurn EXCEPT !.kind = "speech"]
    /\ answer' = NoAnswer
    /\ UNCHANGED <<storeVars, txVars, sessions, endpoint, sid, user, wsAlive, closeCode,
                   cause, events, llm_messages>>

\* text_input up to the call of the agent loop (lines 690-706); a client
\* types only while no utterance is being streamed
RecvTextInput(m) ==
    /\ endpoint = "voice" /\ pc = "loop" /\ wsAlive
    /\ Accepts(m, sid) /\ m.type = "text_input"
    /\ msg' = m
    /\ LET text == Strip(m.text)
           entry == Message("user", text, NoCalls, NoId, "")
       IN  IF text # ""
           THEN /\ Turns(events) < MaxTurns
                /\ ~audio_started /\ dg.buffer = 0 /\ dg.transcript = ""
                /\ history' = AddMessage(history, sid, entry)
                /\ appended' = LogAdd(appended, sid, entry)
                /\ pc' = "llm"
                /\ turn' = [NoTurn EXCEPT !.kind = "text"]
                /\ answer' = NoAnswer
           ELSE UNCHANGED <<history, appended, pc, turn, answer>>
    /\ UNCHANGED <<storeVars, txVars, sessions, costs, endpoint, sid, user, wsAlive,
                   closeCode, cause, events, dg, audio_started, llm_messages>>

\* prices of CostTracker: millionths of a USD per minute of audio,
\* hundredths of a USD per million tokens, thousandths of a USD per
\* thousand characters
DEEPGRAM_COST_PER_MINUTE == 4300
GROQ_COST_PER_1M_INPUT_TOKENS == 59
GROQ_COST_PER_1M_OUTPUT_TOKENS == 79
CARTESIA_COST_PER_1K_CHARS == 15

\* round(x, 6) of num / den millionths of a USD, in millionths of a USD
Round6(num, den) == (2 * num + den) \div (2 * den)

\* CostTracker.get_breakdown on the record d; a voice session never writes
\* tavus_seconds, so the tavus block is left out
GetBreakdown(d) ==
    LET stt == d.stt_audio_seconds * DEEPGRAM_COST_PER_MINUTE
        llm == d.llm_input_tokens * GROQ_COST_PER_1M_INPUT_TOKENS
               + d.llm_output_tokens * GROQ_COST_PER_1M_OUTPUT_TOKENS
        tts == d.tts_characters * CARTESIA_COST_PER_1K_CHARS
    IN  [stt |-> [audio_seconds |-> d.stt_audio_seconds, requests |-> d.stt_requests,
                  cost_usd |-> Round6(stt, 60)],
         llm |-> [input_tokens |-> d.llm_input_tokens,
                  output_tokens |-> d.llm_output_tokens,
                  total_tokens |-> d.llm_input_tokens + d.llm_output_tokens,
                  requests |-> d.llm_requests, cost_usd |-> Round6(llm, 100)],
         tts |-> [characters |-> d.tts_characters, requests |-> d.tts_requests,
                  cost_usd |-> Round6(tts, 1)],
         total_usd |-> Round6(5 * stt + 3 * llm + 300 * tts, 300)]

\* session_manager.set_status: only when the hash exists
SetStatus(sess, s, st) == IF sess[s].exists THEN [sess EXCEPT ![s].status = st] ELSE sess

\* the summary call of end_call: the configured provider answers, it is
\* rate limited and the mock provider answers, it fails in another way, or
\* it answers and the insert of the summary row fails
SummaryOutcomes == {"summarised", "rate_limited", "failed", "persist_failed"}

SummaryText == "The user asked about appointment slots."
\* one of SUMMARY_RESPONSES of the mock provider
MockSummaryText ==
    "Call Summary: The user inquired about scheduling. Key points discussed include availability and preferences."
SummaryFailedText == "Call ended. Summary generation failed due to service limits."

\* summary_response.content, or the text of the except branch (line 673)
SummaryOf(o) ==
    CASE o = "failed" -> SummaryFailedText
      [] o = "rate_limited" -> MockSummaryText
      [] OTHER -> SummaryText

\* the ConversationSummary row of lines 631-638
SummaryRow(s, u, summary, b) ==
    [session_id |-> s, user_id |-> u, summary |-> summary, total_cost |-> b.total_usd]

CostEvent(b) ==
    [type |-> "cost_breakdown", tool_call_id |-> NoId, status |-> "", text |-> "",
     should_end_call |-> FALSE, costs |-> b]

\* an end_call that sends the summary and nothing else
EndCallEventsSummaryOnly(summary, b) == << Event("call_summary", NoId, "", summary, FALSE) >>

\* the events end_call sends (lines 647-661, or 671-684 after a failure)
EndCallEvents(summary, b) ==
    << Event("call_summary", NoId, "", summary, FALSE), CostEvent(b) >>

\* end_call up to the break (lines 546-688): the summary call, the summary
\* row, the two events, set_status and close(1000); when the client has left
\* meanwhile both attempts to send fail and the exception leaves the handler
RecvEndCall(m, o, left, c) ==
    /\ endpoint = "voice" /\ pc = "loop" /\ wsAlive
    /\ Accepts(m, sid) /\ m.type = "end_call"
    /\ msg' = m
    /\ LET tracked == IF o \in {"summarised", "persist_failed"}
                      THEN TrackLlm(costs, sid, 12, 7) ELSE costs
           b == GetBreakdown(tracked[sid])
       IN  /\ costs' = tracked
           /\ summaries' = IF o \in {"summarised", "rate_limited"}
                           THEN Append(summaries, SummaryRow(sid, user, SummaryOf(o), b))
                           ELSE summaries
           /\ IF left
              THEN /\ wsAlive' = FALSE
                   /\ Leave(c, sid, sessions, history, appended, dg)
                   /\ UNCHANGED events
              ELSE /\ events' = events \o EndCallEvents(SummaryOf(o), b)
                   /\ sessions' = SetStatus(sessions, sid, "ended")
                   /\ closeCode' = WS_1000_NORMAL_CLOSURE
                   /\ pc' = "ended"
                   /\ UNCHANGED <<wsAlive, history, appended, dg, cause>>
    /\ UNCHANGED <<appts, lastResult, txVars, endpoint, sid, user, audio_started, turn,
                   answer, llm_messages>>

\* the break of line 688 and the finally block
EndCallCleanup ==
    /\ endpoint = "voice" /\ pc = "ended"
    /\ Leave("end_call", sid, sessions, history, appended, dg)
    /\ UNCHANGED <<storeVars, txVars, costs, endpoint, sid, user, wsAlive, events, msg,
                   audio_started, turn, answer, llm_messages>>

\* any other message type (line 740)
RecvUnknown(m) ==
    /\ endpoint = "voice" /\ pc = "loop" /\ wsAlive
    /\ Accepts(m, sid) /\ m.type = "ping"
    /\ msg' = m
    /\ UNCHANGED <<storeVars, txVars, redisVars, endpoint, pc, sid, user, wsAlive,
                   closeCode, cause, events, dg, audio_started, turn, answer,
                   llm_messages>>

\* a frame json.loads rejects (lines 352 and 439)
RecvMalformed ==
    /\ endpoint = "voice" /\ pc \in {"accepted", "loop"} /\ wsAlive
    /\ Leave("exception", sid, sessions, history, appended, dg)
    /\ UNCHANGED <<storeVars, txVars, costs, endpoint, sid, user, wsAlive, events, msg,
                   audio_started, turn, answer, llm_messages>>

\* receive_text raises WebSocketDisconnect: the client has left, or leaves
\* while the handler waits for its next message
RecvDisconnect ==
    /\ endpoint = "voice" /\ pc \in {"accepted", "loop"}
    /\ wsAlive' = FALSE
    /\ Leave("disconnect", sid, sessions, history, appended, dg)
    /\ UNCHANGED <<storeVars, txVars, costs, endpoint, sid, user, events, msg,
                   audio_started, turn, answer, llm_messages>>

\* the client leaves while the handler is busy with a turn
ClientDisconnect ==
    /\ endpoint = "voice" /\ pc \in {"llm", "tools", "failed", "respond"} /\ wsAlive
    /\ wsAlive' = FALSE
    /\ UNCHANGED <<storeVars, txVars, redisVars, endpoint, pc, sid, user, closeCode,
                   cause, events, msg, dg, audio_started, turn, answer, llm_messages>>

\* _handle_message: a final result of the transcription service
DgFinalResult(text) ==
    /\ endpoint = "voice" /\ pc = "loop"
    /\ dg.state = "connected" /\ audio_started /\ dg.transcript = ""
    /\ dg' = [dg EXCEPT !.transcript = text]
    /\ UNCHANGED <<storeVars, txVars, redisVars, endpoint, pc, sid, user, wsAlive,
                   closeCode, cause, events, msg, audio_started, turn, answer,
                   llm_messages>>

\* _buffer_flush_loop: the timer sends what is buffered
DgFlushTimer ==
    /\ endpoint = "voice" /\ pc = "loop"
    /\ dg.state = "connected" /\ dg.buffer > 0
    /\ dg' = [dg EXCEPT !.buffer = 0]
    /\ UNCHANGED <<storeVars, txVars, redisVars, endpoint, pc, sid, user, wsAlive,
                   closeCode, cause, events, msg, audio_started, turn, answer,
                   llm_messages>>

\* _receive_loop ends: the upstream socket dropped
DgUpstreamDrop ==
    /\ endpoint = "voice" /\ pc = "loop"
    /\ dg.state = "connected"
    /\ dg' = [dg EXCEPT !.state = "down"]
    /\ UNCHANGED <<storeVars, txVars, redisVars, endpoint, pc, sid, user, wsAlive,
                   closeCode, cause, events, msg, audio_started, turn, answer,
                   llm_messages>>
(***************************************************************************)
(* The agent loop: _process_llm_with_tools (api/voice.py) and the loop of  *)
(* chat_completions (api/llm_proxy.py)                                     *)
(***************************************************************************)
FallbackText ==
    "I apologize, but I'm having trouble processing your request. Could you please try again?"
NoResponseText == "I'm sorry, I couldn't generate a response."
TroubleText == "I'm sorry, I had trouble processing that. Could you please repeat?"
TextTroubleText == "I'm sorry, I had trouble processing that."
ProxyTroubleText == "I'm sorry, I had trouble processing that. Could you please try again?"
ListeningText == "I'm listening. Please continue."

\* a tool call of an LLM response
Call(name, date, time, appt) ==
    [id |-> NoId, name |-> name, date |-> date, time |-> time, appointment_id |-> appt]

Today == [kind |-> "today", value |-> ""]
TwoPm == [hour |-> 2, minute |-> -1, mer |-> "pm", junk |-> FALSE]
Fourteen == [hour |-> 14, minute |-> 0, mer |-> "", junk |-> FALSE]

\* the call the mock provider and a looping model keep asking for
LoopBatch == << Call("fetch_slots", Today, NoTime, 0) >>

\* tool-call lists an LLM response may carry
Batches ==
    { << Call("cancel_appointment", NoArg, NoTime, 1),
         Call("book_appointment", Today, Fourteen, 0) >>,
      << Call("end_conversation", NoArg, NoTime, 0) >>,
      << Call("transfer_call", NoArg, NoTime, 0),
         Call("modify_appointment", NoArg, TwoPm, 1) >>,
      LoopBatch }

\* the calls of a response, with the ids the provider gives them: n is the
\* number of the call that produced them
WithIds(batch, n) == [i \in 1..Len(batch) |-> [batch[i] EXCEPT !.id = <<n, i>>]]

\* a tool call written out as text in the content of a response
FunctionCallText == "<function=fetch_slots>{\"date\": \"today\"}</function>"

\* parse_text_tool_calls (llm_proxy.py 96-137): <<clean content, calls>>;
\* of the three patterns only the first matches this form of text, once
ParseTextToolCalls(content) ==
    IF content = FunctionCallText THEN <<"", LoopBatch>> ELSE <<content, <<>>>>

\* clean_response_for_speech (llm_proxy.py 140-148)
CleanResponseForSpeech(content) == IF content = FunctionCallText THEN "" ELSE content

Response(kind, content, batch, usage) ==
    [kind |-> kind, content |-> content, tool_calls |-> batch, usage |-> usage]

\* what llm.generate of the configured provider may do in round n of a
\* turn: any answer in the first round; an answer, a failure or the same
\* call again in the second; the same call again from then on
LLMOutcomes(n) ==
    IF n = 1
    THEN { Response("text", "Done.", <<>>, "input_tokens"),
           Response("text", FunctionCallText, <<>>, "input_tokens"),
           Response("text", "", <<>>, "none"),
           Response("rate_limited", "", <<>>, "none"),
           Response("error", "", <<>>, "none") }
         \cup { Response("tools", "", b, "input_tokens") : b \in Batches }
    ELSE IF n = 2
    THEN { Response("text", "Done.", <<>>, "input_tokens"),
           Response("error", "", <<>>, "none"),
           Response("tools", "", LoopBatch, "input_tokens") }
    ELSE { Response("tools", "", LoopBatch, "input_tokens") }

\* content of the last user message (MockLLMProvider.generate, lines 93-97)
LastUserText(msgs) ==
    LET us == { i \in DOMAIN msgs : msgs[i].role = "user" }
    IN  IF us = {} THEN ""
        ELSE msgs[CHOOSE i \in us : \A j \in us : j <= i].content

\* "check" in last_user_msg or "find" in ... or "search" in ...
AsksLookup(text) == text = "check slots"

\* MockLLMProvider.generate (mock_provider.py 68-141)
MockGenerate(msgs, tools_given) ==
    Response("mock",
             IF LastUserText(msgs) = "hello"
             THEN "Hello! I'm your AI assistant. How can I help you today?"
             ELSE "I understand. Let me help you with that.",
             IF tools_given /\ AsksLookup(LastUserText(msgs)) THEN LoopBatch ELSE <<>>,
             "prompt_tokens")

\* usage.get(key, 0) on the usage dict of a response
UsageGet(usage, key, tokens) == IF usage = key THEN tokens ELSE 0

\* ToolExecutor.execute: dispatch on the tool name; <<store after, result>>
ExecuteTool(store, u, call) ==
    CASE call.name = "book_appointment" -> BookAppointment(store, u, call.date, call.time)
      [] call.name = "cancel_appointment" -> CancelAppointment(store, u, call.appointment_id)
      [] call.name = "modify_appointment" ->
             ModifyAppointment(store, u, call.appointment_id, call.date, call.time)
      [] call.name = "fetch_slots" -> <<store, FetchSlots(store, call.date)>>
      [] call.name \in {"retrieve_appointments", "end_conversation"} -> <<store, Ok(0)>>
      [] OTHER -> <<store, Fail("unknown_tool")>>

\* the loop test with the cap counted as a round of its own
LoopContinuesInclusive(iteration, cap) == iteration <= cap

\* while iteration < MAX_TOOL_ITERATIONS
LoopContinues(iteration, cap) == iteration < cap

\* a loop over the calls that starts from the last one
NextCallReversed(batch, k) == batch[Len(batch) - k]

\* for tool_call in llm_response.tool_calls: the call after k finished ones
NextCall(batch, k) == batch[k + 1]

\* what the provider in use may do in the next round of a turn: the mock
\* provider, once the loop has switched to it, decides by itself
RoundOutcomes(t) ==
    IF t.mock THEN { Response("mock", "", <<>>, "none") } ELSE LLMOutcomes(t.iteration + 1)

\* the response the loop works with: that of the mock provider when it is
\* in use or when the call was rate limited (lines 228-239)
VoiceResponse(o, msgs, mock) ==
    IF mock \/ o.kind = "rate_limited" THEN MockGenerate(msgs, TRUE) ELSE o

\* one round of the loop of _process_llm_with_tools (lines 201-322)
LLMRound(o) ==
    /\ endpoint = "voice" /\ pc = "llm"
    /\ LoopContinues(turn.iteration, MAX_TOOL_ITERATIONS)
    /\ LET r == VoiceResponse(o, history[sid], turn.mock)
           tracked == r.kind # "error" /\ o.kind # "rate_limited" /\ r.usage # "none"
           calls == WithIds(r.tool_calls, Len(appended[sid]))
           request == Message("assistant", r.content, calls, NoId, "")
           final_response == IF r.content # "" THEN r.content ELSE NoResponseText
           final == Message("assistant", final_response, NoCalls, NoId, "")
           counted == [turn EXCEPT !.iteration = @ + 1, !.rounds = @ + 1,
                                   !.mock = turn.mock \/ o.kind = "rate_limited",
                                   !.llm_failed = @ \/ o.kind \in {"rate_limited", "error"}]
       IN  /\ costs' = IF tracked
                       THEN TrackLlm(costs, sid, UsageGet(r.usage, "input_tokens", 12),
                                     UsageGet(r.usage, "input_tokens", 7))
                       ELSE costs
           /\ IF r.kind = "error"
              THEN /\ pc' = "failed"
                   /\ turn' = counted
                   /\ UNCHANGED <<history, appended, answer>>
              ELSE IF r.tool_calls # <<>>
              THEN /\ history' = AddMessage(history, sid, request)
                   /\ appended' = LogAdd(appended, sid, request)
                   /\ turn' = [counted EXCEPT !.batch = calls, !.k = 0, !.executed = <<>>,
                                              !.base = Len(history'[sid])]
                   /\ pc' = "tools"
                   /\ UNCHANGED answer
              ELSE /\ history' = AddMessage(history, sid, final)
                   /\ appended' = LogAdd(appended, sid, final)
                   /\ answer' = [text |-> final_response,
                                 should_end_call |-> turn.end_conversation]
                   /\ turn' = counted
                   /\ pc' = "respond"
    /\ UNCHANGED <<storeVars, txVars, sessions, endpoint, sid, user, wsAlive, closeCode,
                   cause, events, msg, dg, audio_started, llm_messages>>

\* lines 324-326: the loop ran out of rounds
CapReached ==
    /\ endpoint = "voice" /\ pc = "llm"
    /\ ~LoopContinues(turn.iteration, MAX_TOOL_ITERATIONS)
    /\ answer' = [text |-> FallbackText, should_end_call |-> FALSE]
    /\ turn' = [turn EXCEPT !.capped = TRUE]
    /\ pc' = "respond"
    /\ UNCHANGED <<storeVars, txVars, redisVars, endpoint, sid, user, wsAlive, closeCode,
                   cause, events, msg, dg, audio_started, llm_messages>>

\* lines 267-276: the tool_call event of the next call of the batch
ToolStart ==
    /\ endpoint = "voice" /\ pc = "tools"
    /\ turn.running = {} /\ turn.k < Len(turn.batch)
    /\ LET call == NextCall(turn.batch, turn.k)
       IN  IF wsAlive
           THEN /\ events' = Append(events,
                                    Event("tool_call", call.id, "in_progress", call.name, FALSE))
                /\ turn' = [turn EXCEPT !.running = {call.id}]
                /\ pc' = pc
           ELSE /\ pc' = "failed"
                /\ UNCHANGED <<events, turn>>
    /\ UNCHANGED <<storeVars, txVars, redisVars, endpoint, sid, user, wsAlive, closeCode,
                   cause, msg, dg, audio_started, answer, llm_messages>>

\* tool_result.get("status", "success") (line 296): the result dicts of the
\* executor carry success, error and data keys, and no status key
ResultStatus(result) == IF "status" \in DOMAIN result THEN result.status ELSE "success"

\* lines 278-307: execute the call, send tool_result, append the result
ToolFinish ==
    /\ endpoint = "voice" /\ pc = "tools"
    /\ turn.running # {}
    /\ LET call == NextCall(turn.batch, turn.k)
           done == ExecuteTool(appts, user, call)
           entry == Message("tool", done[2], NoCalls, call.id, call.name)
           ran == [turn EXCEPT !.running = {}, !.executed = Append(@, call.id),
                               !.end_conversation = @ \/ call.name = "end_conversation"]
       IN  /\ appts' = done[1]
           /\ lastResult' = done[2]
           /\ IF wsAlive
              THEN /\ events' = Append(events,
                                       Event("tool_result", call.id, ResultStatus(done[2]), call.name, FALSE))
                   /\ history' = AddMessage(history, sid, entry)
                   /\ appended' = LogAdd(appended, sid, entry)
                   /\ turn' = [ran EXCEPT !.k = @ + 1]
                   /\ pc' = IF turn.k + 1 = Len(turn.batch) THEN "llm" ELSE "tools"
              ELSE /\ pc' = "failed"
                   /\ turn' = ran
                   /\ UNCHANGED <<events, history, appended>>
    /\ UNCHANGED <<summaries, txVars, sessions, costs, endpoint, sid, user, wsAlive,
                   closeCode, cause, msg, dg, audio_started, answer, llm_messages>>

\* an exception left _process_llm_with_tools: lines 505-507 for speech,
\* lines 726-738 for text input
TurnFailed(c) ==
    /\ endpoint = "voice" /\ pc = "failed"
    /\ IF turn.kind = "speech"
       THEN /\ answer' = [text |-> TroubleText, should_end_call |-> FALSE]
            /\ pc' = "respond"
            /\ UNCHANGED <<redisVars, events, turn, dg, cause, closeCode>>
       ELSE IF wsAlive
       THEN /\ events' = Append(events,
                                Event("audio_response", NoId, "", TextTroubleText, FALSE))
            /\ pc' = "loop"
            /\ turn' = NoTurn
            /\ UNCHANGED <<redisVars, answer, dg, cause, closeCode>>
       ELSE /\ Leave(c, sid, sessions, history, appended, dg)
            /\ UNCHANGED <<costs, events, turn, answer>>
    /\ UNCHANGED <<storeVars, txVars, endpoint, sid, user, wsAlive, msg, audio_started,
                   llm_messages>>

\* the answer is spoken: lines 509-544 for speech, lines 708-725 for text
Respond(c, connected) ==
    /\ endpoint = "voice" /\ pc = "respond"
    /\ LET response_text == IF turn.kind = "speech" /\ answer.text = ""
                            THEN ListeningText ELSE answer.text
           tracked == TrackTts(costs, sid, Len(response_text))
       IN  /\ costs' = tracked
           /\ IF wsAlive
              THEN /\ events' = Append(events, Event("audio_response", NoId, "",
                                                     response_text, answer.should_end_call))
                   /\ dg' = IF turn.kind = "speech" THEN DgNew(connected, dg.leaked) ELSE dg
                   /\ pc' = "loop"
                   /\ UNCHANGED <<sessions, history, appended, cause, closeCode>>
              ELSE /\ Leave(c, sid, sessions, history, appended, dg)
                   /\ UNCHANGED events
    /\ turn' = NoTurn
    /\ UNCHANGED <<storeVars, txVars, endpoint, sid, user, wsAlive, msg, audio_started,
                   answer, llm_messages>>
\* chat_completions up to its loop (llm_proxy.py 195-273): the request
\* carries a system message, with or without "User ID:", and a user message
ProxyRequest(has_user, text) ==
    /\ endpoint = "proxy" /\ pc = "request"
    /\ llm_messages' = << SystemMessage(IF has_user THEN PromptFor(1) ELSE "persona"),
                          Message("user", text, NoCalls, NoId, "") >>
    /\ user' = IF has_user THEN 1 ELSE 0
    /\ turn' = [NoTurn EXCEPT !.kind = "proxy"]
    /\ pc' = "llm"
    /\ UNCHANGED <<storeVars, txVars, redisVars, endpoint, sid, wsAlive, closeCode, cause,
                   events, msg, dg, audio_started, answer>>

\* one round of the loop of chat_completions (llm_proxy.py 275-355)
ProxyRound(o) ==
    /\ endpoint = "proxy" /\ pc = "llm"
    /\ LoopContinues(turn.iteration, PROXY_MAX_TOOL_ITERATIONS)
    /\ LET parsed == IF o.tool_calls = <<>> /\ user # 0
                     THEN ParseTextToolCalls(o.content) ELSE <<o.content, <<>>>>
           tool_calls_to_execute == IF parsed[2] # <<>> THEN parsed[2] ELSE o.tool_calls
           response_content == IF parsed[2] # <<>> THEN parsed[1] ELSE o.content
           calls == WithIds(tool_calls_to_execute, Len(llm_messages))
           counted == [turn EXCEPT
                          !.iteration = @ + 1, !.rounds = @ + 1,
                          !.prompt_tokens = @ + UsageGet(o.usage, "prompt_tokens", 12),
                          !.completion_tokens = @ + UsageGet(o.usage, "completion_tokens", 7)]
       IN  IF o.kind \in {"error", "rate_limited"}
           THEN /\ answer' = [text |-> ProxyTroubleText, should_end_call |-> FALSE]
                /\ turn' = [turn EXCEPT !.iteration = @ + 1, !.rounds = @ + 1]
                /\ pc' = "respond"
                /\ UNCHANGED llm_messages
           ELSE IF tool_calls_to_execute # <<>> /\ user # 0
           THEN /\ llm_messages' = Append(llm_messages,
                                          Message("assistant", response_content, calls, NoId, ""))
                /\ turn' = [counted EXCEPT !.batch = calls, !.k = 0, !.executed = <<>>,
                                           !.base = Len(llm_messages')]
                /\ pc' = "tools"
                /\ UNCHANGED answer
           ELSE /\ answer' = [text |-> CleanResponseForSpeech(
                                           IF response_content # "" THEN response_content
                                           ELSE NoResponseText),
                              should_end_call |-> FALSE]
                /\ turn' = counted
                /\ pc' = "respond"
                /\ UNCHANGED llm_messages
    /\ UNCHANGED <<storeVars, txVars, redisVars, endpoint, sid, user, wsAlive, closeCode,
                   cause, events, msg, dg, audio_started>>

\* llm_proxy.py 326-341: execute the next call, append its result
ProxyTool ==
    /\ endpoint = "proxy" /\ pc = "tools"
    /\ turn.k < Len(turn.batch)
    /\ LET call == NextCall(turn.batch, turn.k)
           done == ExecuteTool(appts, user, call)
       IN  /\ appts' = done[1]
           /\ lastResult' = done[2]
           /\ llm_messages' = Append(llm_messages,
                                     Message("tool", done[2], NoCalls, call.id, call.name))
           /\ turn' = [turn EXCEPT !.k = @ + 1, !.executed = Append(@, call.id)]
           /\ pc' = IF turn.k + 1 = Len(turn.batch) THEN "llm" ELSE "tools"
    /\ UNCHANGED <<summaries, txVars, redisVars, endpoint, sid, user, wsAlive, closeCode,
                   cause, events, msg, dg, audio_started, answer>>

\* the while test fails: final_response keeps its initial value (line 267)
ProxyCapReached ==
    /\ endpoint = "proxy" /\ pc = "llm"
    /\ ~LoopContinues(turn.iteration, PROXY_MAX_TOOL_ITERATIONS)
    /\ turn' = [turn EXCEPT !.capped = TRUE]
    /\ pc' = "respond"
    /\ UNCHANGED <<storeVars, txVars, redisVars, endpoint, sid, user, wsAlive, closeCode,
                   cause, events, msg, dg, audio_started, answer, llm_messages>>

\* llm_proxy.py 357-370 and the response: track the tokens, return the text
ProxyReturn ==
    /\ endpoint = "proxy" /\ pc = "respond"
    /\ costs' = IF turn.prompt_tokens > 0 \/ turn.completion_tokens > 0
                THEN TrackLlm(costs, ProxyConversation, turn.prompt_tokens,
                              turn.completion_tokens)
                ELSE costs
    /\ events' = Append(events, Event("completion", NoId, "", answer.text, FALSE))
    /\ pc' = "done"
    /\ UNCHANGED <<storeVars, txVars, sessions, history, appended, endpoint, sid, user,
                   wsAlive, closeCode, cause, msg, dg, audio_started, turn, answer,
                   llm_messages>>

(***************************************************************************)
(* SpecWS: one connection to /ws/voice, or one request to the LLM proxy    *)
(***************************************************************************)
InitWS ==
    /\ appts = << Row(1, TodayDate, <<14, 0>>, "scheduled") >>
    /\ lastResult = NoResult
    /\ summaries = <<>>
    /\ InitWriters
    /\ sessions = [s \in SessionIds |-> IF s = "sess_a" THEN NewSession("c1") ELSE NoSession]
    /\ history = [s \in SessionIds |-> <<>>]
    /\ costs = [s \in CostKeys |-> NoCost]
    /\ appended = [s \in SessionIds |-> <<>>]
    /\ endpoint \in {"voice", "proxy"}
    /\ pc = IF endpoint = "voice" THEN "accepted" ELSE "request"
    /\ wsAlive = (endpoint = "voice")
    /\ sid = "none"
    /\ user = 0
    /\ closeCode = 0
    /\ cause = "none"
    /\ events = <<>>
    /\ msg = NoMsg
    /\ dg = NoDg
    /\ audio_started = FALSE
    /\ turn = NoTurn
    /\ answer = NoAnswer
    /\ llm_messages = <<>>

NextWS ==
    \/ \E m \in AuthMessages, o \in InvalidTokenOutcomes, connected \in BOOLEAN :
           Authenticate(m, o, connected)
    \/ \E m \in LoopMessages : RecvWrongSession(m)
    \/ \E m \in LoopMessages, size \in ChunkSizes : RecvAudioChunk(m, size)
    \/ \E m \in LoopMessages : RecvEndOfSpeech(m)
    \/ \E m \in LoopMessages : RecvTextInput(m)
    \/ \E m \in LoopMessages, o \in SummaryOutcomes, left \in BOOLEAN :
           \E c \in IF left THEN SendFailures ELSE {"none"} : RecvEndCall(m, o, left, c)
    \/ EndCallCleanup
    \/ \E m \in LoopMessages : RecvUnknown(m)
    \/ RecvMalformed
    \/ RecvDisconnect
    \/ ClientDisconnect
    \/ \E text \in Utterances : DgFinalResult(text)
    \/ DgFlushTimer
    \/ DgUpstreamDrop
    \/ \E o \in RoundOutcomes(turn) : LLMRound(o)
    \/ CapReached
    \/ ToolStart
    \/ ToolFinish
    \/ \E c \in SendFailures : TurnFailed(c)
    \/ \E c \in SendFailures, connected \in BOOLEAN : Respond(c, connected)
    \/ \E has_user \in BOOLEAN, text \in Utterances \cup TextInputs : ProxyRequest(has_user, text)
    \/ \E o \in LLMOutcomes(turn.iteration + 1) : ProxyRound(o)
    \/ ProxyTool
    \/ ProxyCapReached
    \/ ProxyReturn

SpecWS == InitWS /\ [][NextWS]_vars

\* the iteration cap of the loop the request runs
Cap == IF endpoint = "proxy" THEN PROXY_MAX_TOOL_ITERATIONS ELSE MAX_TOOL_ITERATIONS

\* the message list the agent loop of the request works on
CurrentMsgs ==
    IF endpoint = "proxy" THEN llm_messages
    ELSE IF sid \in SessionIds THEN history[sid] ELSE <<>>

\* the first message fails one of the checks the handshake is to make
BadFirstMessage(m, sess) ==
    \/ m.type # "auth"
    \/ m.token = ""
    \/ m.session_id = ""
    \/ ~ValidToken(m.token)
    \/ ~sess[m.session_id].exists

\* calls of the batch still to run, and whether one is running
Remaining(t) == Len(t.batch) - t.k
Advances(t, u) ==
    \/ u.iteration > t.iteration
    \/ /\ u.iteration = t.iteration
       /\ \/ Remaining(u) < Remaining(t)
          \/ Remaining(u) = Remaining(t) /\ t.running = {} /\ u.running # {}

\* C3: in the message loop a client message whose session_id differs from
\* the session bound at authentication is discarded with no effect, whatever
\* its type (end_call included): history, cost record, transcription client,
\* appointment store and session record are unchanged, no server event is
\* sent and the handler stays in the message loop.
C3_WrongSessionIgnored ==
    [][ (endpoint = "voice" /\ pc = "loop" /\ msg' # msg /\ msg'.session_id # sid)
        => /\ pc' = "loop"
           /\ UNCHANGED <<history, appended, costs, dg, audio_started, appts, events,
                          sessions, closeCode, turn, answer>> ]_vars

\* after a turn, an end_call for another session has been read and the
\* handler is still in its loop
C3_Witness ==
    /\ endpoint = "voice" /\ pc = "loop" /\ wsAlive
    /\ sid = "sess_a" /\ msg.session_id = "sess_b" /\ msg.type = "end_call"
    /\ Len(history[sid]) > 2
    /\ sessions[sid].exists

\* C4: a first message that is not of type auth, lacks the token or the
\* session_id, carries an invalid token or names a session that is not in
\* the store gets the connection closed with 1008, and the handler never
\* sends ready nor enters the message loop.
C4_BadAuthClosedWith1008 ==
    [][ (endpoint = "voice" /\ pc = "accepted" /\ msg' # msg
         /\ BadFirstMessage(msg', sessions))
        => /\ pc' = "done"
           /\ closeCode' = WS_1008_POLICY_VIOLATION
           /\ events' = <<>> ]_vars

\* C5: in one turn the number of LLM rounds never exceeds the cap of the
\* loop (10 in the voice handler, 5 in the proxy), whatever the responses
\* ask for, and the loop terminates: every step of it either starts a new
\* round or works off the batch of the current one.
C5_RoundsCappedLoopEnds ==
    /\ [](turn.rounds <= Cap /\ turn.iteration <= Cap)
    /\ [][ (pc \in {"llm", "tools"} /\ pc' \in {"llm", "tools"} /\ wsAlive' = wsAlive)
           => Advances(turn, turn') ]_vars

\* the voice loop has used all its rounds, each of them asking for tools
C5_Witness ==
    /\ endpoint = "voice" /\ pc = "respond"
    /\ turn.capped /\ turn.rounds = MAX_TOOL_ITERATIONS
    /\ Len(history[sid]) > 2 * MAX_TOOL_ITERATIONS

\* C6: when every round up to the cap asks for tools, the answer of the
\* turn is the fixed non-empty apology, the turn is not call-ending, and
\* the handler goes back to its message loop.
C6_FallbackOnCap ==
    /\ [](turn.capped => /\ answer.text # ""
                         /\ answer.text \in {FallbackText, ProxyTroubleText}
                         /\ ~answer.should_end_call)
    /\ [][ (endpoint = "voice" /\ pc = "respond" /\ turn.capped /\ wsAlive /\ wsAlive')
           => /\ pc' = "loop"
              /\ events' = Append(events, Event("audio_response", NoId, "",
                                                FallbackText, FALSE)) ]_vars

\* C7: for a response with calls c1..cn the loop appends one assistant
\* entry carrying all of them, then runs the calls one at a time in the
\* returned order, appending the result of each under its id before the
\* next starts; the next LLM call is made after all n results are appended.
C7_BatchRunsInOrder ==
    /\ [](pc = "tools" =>
            /\ turn.batch # <<>> /\ turn.k <= Len(turn.batch)
            /\ Len(CurrentMsgs) = turn.base + turn.k
            /\ CurrentMsgs[turn.base].role = "assistant"
            /\ CurrentMsgs[turn.base].tool_calls = turn.batch
            /\ \A i \in 1..turn.k :
                  /\ CurrentMsgs[turn.base + i].role = "tool"
                  /\ CurrentMsgs[turn.base + i].tool_call_id = turn.batch[i].id
            /\ turn.executed = [i \in 1..turn.k |-> turn.batch[i].id]
            /\ Cardinality(turn.running) <= 1
            /\ turn.running # {} => turn.running = {turn.batch[turn.k + 1].id})
    /\ [][ turn'.rounds > turn.rounds
           => (turn.running = {} /\ turn.k = Len(turn.batch)) ]_vars

\* a batch of two calls has run: the cancellation first, then the booking
\* of the slot it freed, which succeeded
C7_Witness ==
    /\ endpoint = "voice" /\ pc = "llm"
    /\ Len(turn.batch) = 2 /\ turn.k = 2
    /\ turn.batch[1].name = "cancel_appointment"
    /\ lastResult.success
    /\ history[sid][Len(history[sid])].role = "tool"
    /\ history[sid][Len(history[sid])].tool_call_id = turn.batch[2].id

\* C10: however the handler ends once session_id is bound (end_call, the
\* client leaving, an exception in any state), the transcription client is
\* closed and the session record and its conversation history are gone;
\* after an exception websocket.close was called with 1011.
C10_CleanupOnEveryExit ==
    (endpoint = "voice" /\ pc = "done" /\ Truthy(sid)) =>
        /\ dg.state \in {"none", "closed"} /\ dg.leaked = 0
        /\ ~sessions[sid].exists
        /\ history[sid] = <<>>
        /\ cause = "exception" => closeCode = WS_1011_INTERNAL_ERROR

\* the client left in the middle of a batch: the handler ended on the
\* exception of a send and cleaned up
C10_Witness ==
    /\ endpoint = "voice" /\ pc = "done" /\ sid = "sess_a"
    /\ cause = "exception" /\ closeCode = WS_1011_INTERNAL_ERROR
    /\ ~wsAlive
    /\ dg.state = "closed"
    /\ \E i \in DOMAIN events : events[i].type = "tool_call"


\* events of one type sent so far
CountEvents(evs, type) == Cardinality({ i \in DOMAIN evs : evs[i].type = type })

\* the step reads an end_call for the bound session and the client stays
EndCallAccepted ==
    /\ endpoint = "voice" /\ pc = "loop" /\ pc' # "loop" /\ wsAlive'
    /\ Accepts(msg', sid) /\ msg'.type = "end_call"

\* every usage counter, every cost and the total of a breakdown are zero
AllZero(b) ==
    /\ b.stt.audio_seconds = 0 /\ b.stt.requests = 0 /\ b.stt.cost_usd = 0
    /\ b.llm.input_tokens = 0 /\ b.llm.output_tokens = 0 /\ b.llm.total_tokens = 0
    /\ b.llm.requests = 0 /\ b.llm.cost_usd = 0
    /\ b.tts.characters = 0 /\ b.tts.requests = 0 /\ b.tts.cost_usd = 0
    /\ b.total_usd = 0

\* C11: whenever a generate call fails during a turn, whatever the error,
\* the loop goes on with the response of the mock provider: the turn does
\* not fail, and no "had trouble" text is ever sent to the client.
C11_FailureAnsweredByMock ==
    /\ [][ (endpoint = "voice" /\ pc = "llm" /\ turn'.llm_failed /\ ~turn.llm_failed)
           => (turn'.mock /\ pc' \in {"tools", "respond"}) ]_vars
    /\ [](\A i \in DOMAIN events :
             events[i].type = "audio_response"
             => events[i].text \notin {TroubleText, TextTroubleText})

\* C12: every generate call that returns a response in a session (the call
\* of a round, the mock call after a rate limit, the summary call of
\* end_call) increments the LLM request counter of the session's cost record
\* in the same step, and the LLM counters of a record never decrease.
C12_EveryResponseTracked ==
    /\ [][ (endpoint = "voice" /\ pc = "llm" /\ turn'.rounds = turn.rounds + 1
            /\ pc' # "failed")
           => costs'[sid].llm_requests = costs[sid].llm_requests + 1 ]_vars
    /\ [][ (EndCallAccepted /\ events'[Len(events')- 1].text # SummaryFailedText)
           => costs'[sid].llm_requests = costs[sid].llm_requests + 1 ]_vars
    /\ [][ \A k \in CostKeys :
              /\ costs'[k].llm_requests >= costs[k].llm_requests
              /\ costs'[k].llm_input_tokens >= costs[k].llm_input_tokens
              /\ costs'[k].llm_output_tokens >= costs[k].llm_output_tokens ]_vars

\* C13: an end_call accepted from the bound session sends exactly one
\* call_summary event followed by exactly one cost_breakdown event, sets the
\* session status to ended and closes with 1000, also when the summary call
\* or the insert of the summary row fails; nothing is sent after that.
C13_EndCallSummaryThenCosts ==
    /\ [][ EndCallAccepted
           => /\ Len(events') = Len(events) + 2
              /\ SubSeq(events', 1, Len(events)) = events
              /\ events'[Len(events) + 1].type = "call_summary"
              /\ events'[Len(events) + 2].type = "cost_breakdown"
              /\ sessions'[sid].status = "ended"
              /\ closeCode' = WS_1000_NORMAL_CLOSURE
              /\ pc' = "ended" ]_vars
    /\ [][ pc = "ended"
           => /\ pc' = "done" /\ cause' = "end_call"
              /\ closeCode' = WS_1000_NORMAL_CLOSURE
              /\ events' = events ]_vars
    /\ [](CountEvents(events, "call_summary") <= 1
          /\ CountEvents(events, "cost_breakdown") <= 1)

\* after a turn, end_call was served although the insert of the summary row
\* failed: the two events are the last ones sent and the handler has closed
C13_Witness ==
    /\ endpoint = "voice" /\ pc = "done" /\ cause = "end_call"
    /\ closeCode = WS_1000_NORMAL_CLOSURE
    /\ summaries = <<>>
    /\ Len(events) >= 4
    /\ events[Len(events) - 1].type = "call_summary"
    /\ events[Len(events) - 1].text = SummaryText
    /\ events[Len(events)].type = "cost_breakdown"
    /\ \E i \in DOMAIN events : events[i].type = "audio_response"

\* C14: an end_call sent right after ready, before any turn, is answered
\* with a call_summary event and a cost_breakdown event in which every usage
\* counter, every per-resource cost and the total are zero.
C14_ImmediateEndCallAllZero ==
    [][ (EndCallAccepted /\ Len(events) = 1 /\ events[1].type = "ready"
         /\ costs[sid] = NoCost)
        => /\ events'[2].type = "call_summary"
           /\ events'[3].type = "cost_breakdown"
           /\ AllZero(events'[3].costs) ]_vars

\* C15: once the connection has closed after an end_call no cost record is
\* left for the session, and a cost record is only ever deleted after the
\* summary row of its session was inserted.
C15_CostRecordCleared ==
    /\ []((endpoint = "voice" /\ pc = "done" /\ cause = "end_call") => ~costs[sid].exists)
    /\ [][ \A k \in CostKeys :
              (costs[k].exists /\ ~costs'[k].exists)
              => \E i \in DOMAIN summaries : summaries[i].session_id = k ]_vars


\* C17: cancel_appointment on an appointment that is already cancelled
\* reports failure and leaves the whole store unchanged, so a second cancel
\* of the same appointment leaves the state the first one produced.
C17_CancelTwiceSameAsOnce ==
    \A u \in Users, id \in ApptIds :
        LET once == CancelAppointment(appts, u, id)
            twice == CancelAppointment(once[1], u, id)
        IN  /\ (id \in DOMAIN appts /\ appts[id].status = "cancelled")
               => (~once[2].success /\ once[1] = appts)
            /\ ~twice[2].success
            /\ twice[1] = once[1]

\* the last call was a cancel of an appointment that was cancelled before
C17_Witness ==
    /\ lastResult.error = "already_cancelled"
    /\ \E i \in DOMAIN appts : appts[i].status = "cancelled"

\* C18: cancel_appointment on an id that is not in the store (error "not
\* found") or on an appointment of another user reports failure and changes
\* no appointment; a successful cancel changes only the status of that
\* appointment, from scheduled to cancelled; the store never loses a record.
C18_CancelGuarded ==
    \A u \in Users, id \in ApptIds :
        LET done == CancelAppointment(appts, u, id)
        IN  /\ id \notin DOMAIN appts
               => (done[2] = Fail("not_found") /\ done[1] = appts)
            /\ (id \in DOMAIN appts /\ appts[id].user_id # u)
               => (~done[2].success /\ done[1] = appts)
            /\ done[2].success
               => /\ id \in DOMAIN appts
                  /\ appts[id].status = "scheduled"
                  /\ done[1] = [appts EXCEPT ![id].status = "cancelled"]
            /\ ~done[2].success => done[1] = appts
            /\ Len(done[1]) >= Len(appts)

\* a user tried to cancel the scheduled appointment of another user
C18_Witness ==
    /\ lastResult.error = "not_owner"
    /\ Len(appts) = 1
    /\ appts[1].status = "scheduled"

\* C19: modify_appointment succeeds only for the owner of an appointment
\* that is not cancelled and with new_date or new_time given; after a
\* success the appointment's time is a catalog slot, no other scheduled
\* appointment holds its (date, time) and no other row has changed; after a
\* failure no appointment has changed.
C19_ModifyGuarded ==
    \A u \in Users, id \in ApptIds, nd \in NewDates, nt \in NewTimes :
        LET done == ModifyAppointment(appts, u, id, nd, nt)
            after == done[1]
        IN  IF done[2].success
            THEN /\ id \in DOMAIN appts
                 /\ appts[id].user_id = u
                 /\ appts[id].status # "cancelled"
                 /\ HasDate(nd) \/ HasTime(nt)
                 /\ DOMAIN after = DOMAIN appts
                 /\ after[id].time \in AVAILABLE_SLOTS
                 /\ after[id].time = TargetTime(appts[id], nt)
                 /\ after[id].date = TargetDate(appts[id], nd)
                 /\ \A j \in DOMAIN after :
                       j # id =>
                          /\ after[j] = appts[j]
                          /\ after[j].status = "scheduled"
                             => ~(/\ after[j].date = after[id].date
                                  /\ after[j].time = after[id].time)
            ELSE after = appts

\* C20: a book_appointment call whose time normalises to a catalog slot
\* ("2pm" to 14:00) on a date without a scheduled appointment at that slot
\* succeeds and adds exactly one scheduled appointment of the caller with
\* the normalised time; the same call made again is refused as already
\* booked and leaves the store unchanged.
C20_BookNormalisedThenRefused ==
    \A u \in Users, d \in DateInputs, t \in TimeInputs :
        LET done == BookAppointment(appts, u, d, t)
            again == BookAppointment(done[1], u, d, t)
        IN  /\ (/\ ParseDate(d) # NoDate
                /\ NormalizeTime(t) \in AVAILABLE_SLOTS
                /\ ScheduledAt(appts, ParseDate(d), NormalizeTime(t)) = {})
               => /\ done[2] = Ok(Len(appts) + 1)
                  /\ done[1] = Append(appts, Row(u, ParseDate(d), NormalizeTime(t),
                                                 "scheduled"))
                  /\ again = <<done[1], Fail("already_booked")>>
            /\ (/\ t = TwoPm
                /\ ParseDate(d) # NoDate
                /\ ScheduledAt(appts, ParseDate(d), <<14, 0>>) = {})
               => /\ done[2].success
                  /\ done[1][Len(done[1])] = Row(u, ParseDate(d), <<14, 0>>, "scheduled")

\* the 14:00 slot was booked and a second booking of it was refused
C20_Witness ==
    /\ lastResult.error = "already_booked"
    /\ Len(appts) = 1
    /\ appts[1] = Row(appts[1].user_id, TomorrowDate, <<14, 0>>, "scheduled")


(***************************************************************************)
(* ToolExecutor.execute on the argument maps an LLM response may carry     *)
(***************************************************************************)
\* self.user_id when the executor was built without an authenticated user
NoUser == 0
ExecUsers == Users \cup {NoUser}

\* values of an "appointment_id" argument: a number, absent, a word, null
RawIds ==
    { [kind |-> "int", value |-> n] : n \in ApptIds }
    \cup { [kind |-> k, value |-> 0] : k \in {"missing", "text", "null"} }

\* int(args.get("appointment_id", "")): the exception it raises, "" if none
IntError(raw) ==
    CASE raw.kind = "int" -> ""
      [] raw.kind = "null" -> "TypeError"
      [] OTHER -> "ValueError"

\* the value of int(...) when it raises nothing
IntOf(raw) == raw.value

\* a JSON null given for a date or a time
NullDate == [kind |-> "null", value |-> ""]
NullTime == [hour |-> 0, minute |-> 0, mer |-> "", junk |-> TRUE, none |-> TRUE, null |-> TRUE]
IsNull(x) == IF "kind" \in DOMAIN x THEN x.kind = "null" ELSE "null" \in DOMAIN x

RawDates == {Today, [kind |-> "bad", value |-> "someday"], NoArg, NullDate}
RawTimes == {TwoPm, NoTime, NullTime}

\* an argument map, by the keys the tool methods read
Args(id, d, t) == [appointment_id |-> id, date |-> d, time |-> t]
NoRawId == [kind |-> "missing", value |-> 0]

\* tool calls of a response: each tool with every value of the arguments its
\* method reads, the other keys absent
ExecCalls ==
    { <<name, Args(NoRawId, NoArg, NoTime)>> :
          name \in {"identify_user", "retrieve_appointments", "end_conversation",
                    "transfer_call"} }
    \cup { <<"fetch_slots", Args(NoRawId, d, NoTime)>> : d \in RawDates }
    \cup { <<"book_appointment", Args(NoRawId, d, t)>> : d \in RawDates, t \in RawTimes }
    \cup { <<"cancel_appointment", Args(id, NoArg, NoTime)>> : id \in RawIds }
    \cup { <<"modify_appointment", Args(id, d, t)>> :
               id \in RawIds, d \in RawDates, t \in RawTimes }

\* whether the database answers or raises on the queries of this call
DbStates == {"up", "down"}

\* what a tool method does: return a dict, or raise
Returned(pair) == [store |-> pair[1], raised |-> "", result |-> pair[2]]
Raised(store, exc) == [store |-> store, raised |-> exc, result |-> NoResult]

\* args.get("new_date") / args.get("new_time") when the value is null
DateOrNone(d) == IF IsNull(d) THEN NoArg ELSE d
TimeOrNone(t) == IF IsNull(t) THEN NoTime ELSE t

\* the _execute_<tool_name> methods
ToolMethod(store, u, name, args, db) ==
    CASE name = "end_conversation" -> Returned(<<store, Ok(0)>>)
      [] name = "identify_user" ->
             IF u # NoUser THEN Returned(<<store, Ok(0)>>)
             ELSE Returned(<<store, Fail("invalid_phone")>>)
      [] name = "fetch_slots" ->
             IF IsNull(args.date) THEN Raised(store, "AttributeError")
             ELSE IF ParseDate(args.date) = NoDate
                  THEN Returned(<<store, Fail("invalid_date")>>)
             ELSE IF db = "down" THEN Raised(store, "OperationalError")
             ELSE Returned(<<store, FetchSlots(store, args.date)>>)
      [] name = "retrieve_appointments" ->
             IF u = NoUser THEN Returned(<<store, Fail("not_authenticated")>>)
             ELSE IF db = "down" THEN Raised(store, "OperationalError")
             ELSE Returned(<<store, Ok(0)>>)
      [] name = "book_appointment" ->
             IF u = NoUser THEN Returned(<<store, Fail("not_authenticated")>>)
             ELSE IF IsNull(args.date) THEN Raised(store, "AttributeError")
             ELSE IF ParseDate(args.date) = NoDate
                  THEN Returned(<<store, Fail("invalid_date")>>)
             ELSE IF IsNull(args.time) THEN Raised(store, "AttributeError")
             ELSE IF NormalizeTime(args.time) \notin AVAILABLE_SLOTS
                  THEN Returned(<<store, Fail("invalid_time")>>)
             ELSE IF db = "down" THEN Raised(store, "OperationalError")
             ELSE Returned(BookAppointment(store, u, args.date, args.time))
      [] name = "cancel_appointment" ->
             IF u = NoUser THEN Returned(<<store, Fail("not_authenticated")>>)
             ELSE IF IntError(args.appointment_id) = "ValueError"
                  THEN Returned(<<store, Fail("invalid_id")>>)
             ELSE IF IntError(args.appointment_id) = "TypeError"
                  THEN Raised(store, "TypeError")
             ELSE IF db = "down" THEN Raised(store, "OperationalError")
             ELSE Returned(CancelAppointment(store, u, IntOf(args.appointment_id)))
      [] name = "modify_appointment" ->
             LET nd == DateOrNone(args.date)
                 nt == TimeOrNone(args.time)
             IN  IF u = NoUser THEN Returned(<<store, Fail("not_authenticated")>>)
                 ELSE IF ~HasDate(nd) /\ ~HasTime(nt)
                      THEN Returned(<<store, Fail("nothing_to_change")>>)
                 ELSE IF IntError(args.appointment_id) = "ValueError"
                      THEN Returned(<<store, Fail("invalid_id")>>)
                 ELSE IF IntError(args.appointment_id) = "TypeError"
                      THEN Raised(store, "TypeError")
                 ELSE IF db = "down" THEN Raised(store, "OperationalError")
                 ELSE Returned(ModifyAppointment(store, u, IntOf(args.appointment_id), nd, nt))

\* a handler that lets everything but ValueError pass
CaughtValueErrorOnly(exc) == exc = "ValueError"

\* except Exception (line 75)
Caught(exc) == exc \in {"ValueError", "TypeError", "AttributeError", "OperationalError"}

\* what the caller of execute gets when the exception is not caught
Escaped(exc) == [raised |-> exc]

\* ToolExecutor.execute (lines 48-80): <<store after, what the caller gets>>
Execute(store, u, name, args, db) ==
    IF name = "transfer_call" THEN <<store, Fail("unknown_tool")>>
    ELSE LET m == ToolMethod(store, u, name, args, db)
         IN  IF m.raised = "" THEN <<m.store, m.result>>
             ELSE IF Caught(m.raised) THEN <<m.store, Fail(m.raised)>>
             ELSE <<m.store, Escaped(m.raised)>>

execute(u, name, args, db) ==
    /\ Len(Execute(appts, u, name, args, db)[1]) <= MaxAppts
    /\ appts' = Execute(appts, u, name, args, db)[1]
    /\ lastResult' = Execute(appts, u, name, args, db)[2]
    /\ UNCHANGED <<summaries, txVars, redisVars, connVars>>

NextExec ==
    \E u \in ExecUsers, call \in ExecCalls, db \in DbStates :
        execute(u, call[1], call[2], db)

SpecExec == InitTools /\ [][NextExec]_vars

C22_EndConversationEndsCall ==
    /\ [][ (pc = "tools" /\ turn.running # {} /\ wsAlive
            /\ NextCall(turn.batch, turn.k).name = "end_conversation")
           => (appts' = appts /\ sessions' = sessions) ]_vars
    /\ [][ (turn.end_conversation /\ Len(events') = Len(events) + 1
            /\ events'[Len(events')].type = "audio_response")
           => events'[Len(events')].should_end_call ]_vars


\* C23: an end_of_speech or text_input message accepted from the bound
\* session starts a turn, whatever its transcript or text, and the handler
\* comes back to reading client messages only by the step that sends the one
\* audio_response event of that turn.
C23_EveryTurnAnsweredOnce ==
    /\ [][ (endpoint = "voice" /\ pc = "loop" /\ msg' # msg /\ Accepts(msg', sid)
            /\ msg'.type \in {"end_of_speech", "text_input"})
           => pc' \in {"llm", "respond"} ]_vars
    /\ [][ (endpoint = "voice" /\ pc \in {"llm", "tools", "failed", "respond"}
            /\ pc' = "loop")
           => /\ Len(events') = Len(events) + 1
              /\ events'[Len(events')].type = "audio_response" ]_vars


\* the two responses C24 compares: the call as text, the call as a
\* structured tool call
TextCallResponse == Response("text", FunctionCallText, <<>>, "input_tokens")
StructuredCallResponse == Response("tools", "", LoopBatch, "input_tokens")

\* C24: a round whose response carries no structured tool call but the text
\* <function=NAME>{arguments}</function> is the same step as a round whose
\* response carries the structured call NAME(arguments), in the loop of the
\* voice handler and in the loop of the LLM proxy when it has a tool
\* executor: the assistant entry with the call is appended and the loop goes
\* on to execute the tool.
C24_TextCallSameAsStructured ==
    [][ /\ LLMRound(TextCallResponse) => LLMRound(StructuredCallResponse)
        /\ (user # 0 /\ ProxyRound(TextCallResponse))
           => ProxyRound(StructuredCallResponse) ]_vars


(***************************************************************************)
(* SpecCost: CostTracker calls of two server processes on one cost record  *)
(***************************************************************************)
MaxTracked == 2        \* track calls one process makes

\* CostTracker.track_tavus on the record of key k: sets, does not add
TrackTavus(c, k, seconds) == [c EXCEPT ![k].exists = TRUE, ![k].tavus_seconds = seconds]

\* the track calls the processes make: kind and amounts
TrackCalls ==
    { [kind |-> "stt", a |-> 3, b |-> 0], [kind |-> "llm", a |-> 12, b |-> 7],
      [kind |-> "tts", a |-> 5, b |-> 0], [kind |-> "tavus", a |-> 60, b |-> 0] }

\* the body of a track method between _get_data and _save_data, on the
\* dict it has read
TrackOn(data, call) ==
    LET c == [k \in {ProxyConversation} |-> data]
        k == ProxyConversation
    IN  CASE call.kind = "stt" -> TrackStt(c, k, call.a)[k]
          [] call.kind = "llm" -> TrackLlm(c, k, call.a, call.b)[k]
          [] call.kind = "tts" -> TrackTts(c, k, call.a)[k]
          [] OTHER -> TrackTavus(c, k, call.a)[k]

\* _save_data of a track method: the dict it read, updated, replaces the
\* stored record (redis SET)
SaveData(stored, data, call) == TrackOn(data, call)

\* a process between calls; sent is what its finished calls have tracked
IdleTracker(sent) == [pc |-> "idle", call |-> [kind |-> "none", a |-> 0, b |-> 0],
                      data |-> NoCost, sent |-> sent]

InitCost ==
    /\ InitStore
    /\ InitRedis
    /\ InitConnIdle
    /\ writers = [w \in Writers |-> IdleTracker(NoCost)]

\* _get_data (lines 41-58): redis GET and json.loads
GetData(w, call) ==
    /\ writers[w].pc = "idle"
    /\ writers[w].sent.stt_requests + writers[w].sent.llm_requests
         + writers[w].sent.tts_requests + (IF writers[w].sent.tavus_seconds > 0 THEN 1 ELSE 0)
       < MaxTracked
    /\ writers' = [writers EXCEPT ![w] = [pc |-> "loaded", call |-> call,
                                          data |-> costs[ProxyConversation],
                                          sent |-> writers[w].sent]]
    /\ UNCHANGED <<storeVars, redisVars, connVars>>

\* the += lines and _save_data (lines 60-90)
TrackSave(w) ==
    /\ writers[w].pc = "loaded"
    /\ costs' = [costs EXCEPT ![ProxyConversation] =
                    SaveData(costs[ProxyConversation], writers[w].data, writers[w].call)]
    /\ writers' = [writers EXCEPT ![w] = IdleTracker(TrackOn(writers[w].sent, writers[w].call))]
    /\ UNCHANGED <<storeVars, sessions, history, appended, connVars>>

NextCost ==
    \E w \in Writers :
        \/ \E call \in TrackCalls : GetData(w, call)
        \/ TrackSave(w)

SpecCost == InitCost /\ [][NextCost]_vars

\* sum over the processes of a field of what they have tracked
SentBy(field) == writers["session_a"].sent[field] + writers["session_b"].sent[field]

\* C25: whenever no track call is under way, every accumulator of the cost
\* record equals the sum of the amounts the finished calls tracked for it
\* and every request counter equals the number of finished calls of its
\* kind, however the calls of the two processes were interleaved.
C25_NoCostUpdateLost ==
    (\A w \in Writers : writers[w].pc = "idle")
    => \A field \in {"stt_requests", "llm_requests", "tts_requests", "stt_audio_seconds",
                     "llm_input_tokens", "llm_output_tokens", "tts_characters"} :
           costs[ProxyConversation][field] = SentBy(field)


(***************************************************************************)
(* SpecDg: one DeepgramStreamingClient, its two background tasks and the   *)
(* handler task that calls its methods (services/deepgram_service.py)      *)
(***************************************************************************)
MaxChunks == 3         \* audio chunks the handler passes to send_audio
MaxResults == 2        \* Results messages the transcription service sends

\* bytes of one audio chunk of the client, and chunks that fill the buffer
CHUNK_BYTES == CHOOSE size \in ChunkSizes : TRUE
ChunksPerSend == BUFFER_SIZE_BYTES \div CHUNK_BYTES

\* the CloseStream message among what was sent upstream (chunks are 1, 2, ..)
CloseStream == 0

\* a client after __init__ (lines 27-53); accepted, upstream, results and
\* waited record what happened: chunks put into the buffer, messages sent
\* on the upstream socket, Results messages handled, the grace wait done;
\* final_transcript and read are the handler's local of voice.py line 481
NewClient ==
    [ws |-> "none", is_connected |-> FALSE, buffer |-> <<>>, lock |-> "free",
     full_transcript |-> <<>>, buffer_task |-> "none", receive_task |-> "none",
     cancel_buffer |-> FALSE, cancel_receive |-> FALSE,
     pending |-> 0, snapshot |-> <<>>, task_snapshot |-> <<>>,
     accepted |-> <<>>, upstream |-> <<>>, results |-> <<>>, waited |-> FALSE,
     final_transcript |-> <<>>, read |-> FALSE]

InitDg ==
    /\ InitStore /\ InitWriters /\ InitRedis
    /\ endpoint = "none" /\ sid = "none" /\ user = 0 /\ wsAlive = FALSE
    /\ closeCode = 0 /\ cause = "none" /\ events = <<>> /\ msg = NoMsg
    /\ audio_started = FALSE /\ turn = NoTurn /\ answer = NoAnswer /\ llm_messages = <<>>
    /\ dg = NewClient
    /\ pc = "new"

\* what no step of the client touches
DgRest ==
    UNCHANGED <<storeVars, txVars, redisVars, endpoint, sid, user, wsAlive, closeCode,
                cause, events, msg, audio_started, turn, answer, llm_messages>>

\* a lock that never makes a task wait
LockFreeAlways(d) == TRUE

\* asyncio.Lock: async with self._buffer_lock goes on when nobody holds it
LockFree(d) == d.lock = "free"

\* the condition of _flush_buffer (line 187)
CanFlush(d) == Len(d.buffer) > 0 /\ d.is_connected /\ d.ws # "none"

\* a send after which the buffer is not cleared
AfterSendKeepsBuffer(d, snapshot) ==
    IF d.ws = "open"
    THEN [d EXCEPT !.upstream = @ \o snapshot, !.lock = "free"]
    ELSE [d EXCEPT !.lock = "free"]

\* await self._ws.send(snapshot) and the clear after it (lines 189-191 and
\* 210-212): on a closed socket send raises and the buffer is kept
AfterSend(d, snapshot) ==
    IF d.ws = "open"
    THEN [d EXCEPT !.upstream = @ \o snapshot, !.buffer = <<>>, !.lock = "free"]
    ELSE [d EXCEPT !.lock = "free"]

\* connect (lines 75-109)
Connect(ok) ==
    /\ pc = "new"
    /\ dg' = IF ok
             THEN [dg EXCEPT !.ws = "open", !.is_connected = TRUE,
                             !.receive_task = "running", !.buffer_task = "sleeping"]
             ELSE dg
    /\ pc' = "ready"
    /\ DgRest

\* send_audio from its lock on (lines 204-214): append, threshold check
SendAudioLocked(d, n) ==
    LET put == [d EXCEPT !.buffer = Append(@, n), !.accepted = Append(@, n), !.pending = 0]
    IN  IF Len(put.buffer) >= ChunksPerSend
        THEN <<[put EXCEPT !.lock = "caller", !.snapshot = put.buffer], "sa_sending">>
        ELSE <<put, "ready">>

\* send_audio (lines 195-204) up to the lock
SendAudioCall ==
    /\ pc = "ready" /\ ~dg.read
    /\ Len(dg.accepted) < MaxChunks
    /\ LET n == Len(dg.accepted) + 1
       IN  IF ~dg.is_connected \/ dg.ws = "none"
           THEN UNCHANGED <<dg, pc>>
           ELSE IF LockFree(dg)
           THEN /\ dg' = SendAudioLocked(dg, n)[1]
                /\ pc' = SendAudioLocked(dg, n)[2]
           ELSE /\ dg' = [dg EXCEPT !.pending = n]
                /\ pc' = "sa_wait_lock"
    /\ DgRest

SendAudioAcquire ==
    /\ pc = "sa_wait_lock" /\ dg.lock = "free"
    /\ dg' = SendAudioLocked(dg, dg.pending)[1]
    /\ pc' = SendAudioLocked(dg, dg.pending)[2]
    /\ DgRest

SendAudioSent ==
    /\ pc = "sa_sending"
    /\ dg' = AfterSend(dg, dg.snapshot)
    /\ pc' = "ready"
    /\ DgRest

\* _flush_buffer called by finish_stream, from its lock on
FinishFlushLocked(d) ==
    IF CanFlush(d)
    THEN <<[d EXCEPT !.lock = "caller", !.snapshot = d.buffer], "fs_sending">>
    ELSE <<d, "fs_close_stream">>

\* end_of_speech (voice.py 480-485) and finish_stream (lines 216-226)
FinishStreamCall ==
    /\ pc = "ready" /\ ~dg.read
    /\ IF ~dg.is_connected \/ dg.ws = "none"
       THEN /\ dg' = [dg EXCEPT !.read = TRUE]
            /\ pc' = "turn"
       ELSE IF LockFree(dg)
       THEN /\ dg' = FinishFlushLocked(dg)[1]
            /\ pc' = FinishFlushLocked(dg)[2]
       ELSE /\ pc' = "fs_wait_lock"
            /\ UNCHANGED dg
    /\ DgRest

FinishFlushAcquire ==
    /\ pc = "fs_wait_lock" /\ dg.lock = "free"
    /\ dg' = FinishFlushLocked(dg)[1]
    /\ pc' = FinishFlushLocked(dg)[2]
    /\ DgRest

FinishFlushSent ==
    /\ pc = "fs_sending"
    /\ dg' = AfterSend(dg, dg.snapshot)
    /\ pc' = "fs_close_stream"
    /\ DgRest

\* lines 229-235: CloseStream, then the grace wait; a send that raises
\* skips the wait
FinishCloseStream ==
    /\ pc = "fs_close_stream"
    /\ IF dg.ws = "open"
       THEN /\ dg' = [dg EXCEPT !.upstream = Append(@, CloseStream)]
            /\ pc' = "fs_grace"
       ELSE /\ pc' = "fs_done"
            /\ UNCHANGED dg
    /\ DgRest

FinishGraceOver ==
    /\ pc = "fs_grace"
    /\ dg' = [dg EXCEPT !.waited = TRUE]
    /\ pc' = "fs_done"
    /\ DgRest

\* get_full_transcript (voice.py line 484)
ReadTranscript ==
    /\ pc = "fs_done"
    /\ dg' = [dg EXCEPT !.final_transcript = dg.full_transcript, !.read = TRUE]
    /\ pc' = "turn"
    /\ DgRest


\* the test of while self._is_connected (line 176) after a flush
FlushLoopTest(d) == IF d.is_connected THEN "sleeping" ELSE "done"

\* _flush_buffer called by _buffer_flush_loop, from its lock on
FlushLocked(d) ==
    IF CanFlush(d)
    THEN [d EXCEPT !.lock = "flusher", !.task_snapshot = d.buffer, !.buffer_task = "sending"]
    ELSE [d EXCEPT !.buffer_task = FlushLoopTest(d)]

\* _buffer_flush_loop (lines 170-182): the sleep is over
FlushWake ==
    /\ dg.buffer_task = "sleeping" /\ ~dg.cancel_buffer
    /\ dg' = IF LockFree(dg) THEN FlushLocked(dg) ELSE [dg EXCEPT !.buffer_task = "wait_lock"]
    /\ DgRest /\ UNCHANGED pc

FlushAcquire ==
    /\ dg.buffer_task = "wait_lock" /\ ~dg.cancel_buffer /\ dg.lock = "free"
    /\ dg' = FlushLocked(dg)
    /\ DgRest /\ UNCHANGED pc

FlushSent ==
    /\ dg.buffer_task = "sending" /\ ~dg.cancel_buffer
    /\ LET d == AfterSend(dg, dg.task_snapshot)
       IN  dg' = [d EXCEPT !.buffer_task = FlushLoopTest(d)]
    /\ DgRest /\ UNCHANGED pc

\* _handle_message (lines 130-156) on a Results message with a transcript:
\* results are numbered in arrival order
HandleMessageAll(d, is_final) ==
    [d EXCEPT !.results = Append(@, [no |-> Len(d.results) + 1, is_final |-> is_final]),
              !.full_transcript = Append(@, Len(d.results) + 1)]

HandleMessage(d, is_final) ==
    [d EXCEPT !.results = Append(@, [no |-> Len(d.results) + 1, is_final |-> is_final]),
              !.full_transcript = IF is_final THEN Append(@, Len(d.results) + 1) ELSE @]

\* _receive_loop (lines 111-128): a message of the service
ReceiveResult(is_final) ==
    /\ dg.receive_task = "running" /\ ~dg.cancel_receive /\ dg.ws = "open"
    /\ Len(dg.results) < MaxResults
    /\ dg' = HandleMessage(dg, is_final)
    /\ DgRest /\ UNCHANGED pc

\* the service closes the upstream socket
UpstreamClosed ==
    /\ dg.ws = "open"
    /\ dg' = [dg EXCEPT !.ws = "closed"]
    /\ DgRest /\ UNCHANGED pc

\* _receive_loop ends (lines 123-128): ConnectionClosed on a closed socket,
\* or a message that cannot be handled on an open one
ReceiveLoopEnds ==
    /\ dg.receive_task = "running" /\ ~dg.cancel_receive /\ dg.ws # "none"
    /\ dg' = [dg EXCEPT !.is_connected = FALSE, !.receive_task = "done"]
    /\ DgRest /\ UNCHANGED pc

\* a task that was started and has not ended
Running(t) == t \notin {"none", "done"}

\* a close that waits for no task
TaskFinishedNoWait(t) == TRUE

\* await self._buffer_task / await self._receive_task return (lines 247, 255)
TaskFinished(t) == t \in {"none", "done"}

\* close (lines 237-245)
CloseCall ==
    /\ pc \in {"new", "ready", "turn"}
    /\ dg' = [dg EXCEPT !.is_connected = FALSE, !.cancel_buffer = Running(dg.buffer_task)]
    /\ pc' = "cl_buffer"
    /\ DgRest

\* the cancelled flush task ends at its await; a send under way may or may
\* not have gone out, and the lock of async with is released
BufferTaskCancelled(sent) ==
    /\ dg.cancel_buffer /\ Running(dg.buffer_task)
    /\ dg' = IF dg.buffer_task = "sending"
             THEN [dg EXCEPT !.buffer_task = "done", !.lock = "free",
                             !.upstream = IF sent /\ dg.ws = "open" THEN @ \o dg.task_snapshot ELSE @]
             ELSE [dg EXCEPT !.buffer_task = "done"]
    /\ DgRest /\ UNCHANGED pc

\* lines 246-253
CloseAwaitBuffer ==
    /\ pc = "cl_buffer" /\ TaskFinished(dg.buffer_task)
    /\ dg' = [dg EXCEPT !.cancel_receive = Running(dg.receive_task)]
    /\ pc' = "cl_receive"
    /\ DgRest

\* the cancelled receive task ends at its await (finally, line 128)
ReceiveTaskCancelled ==
    /\ dg.cancel_receive /\ dg.receive_task = "running"
    /\ dg' = [dg EXCEPT !.receive_task = "done", !.is_connected = FALSE]
    /\ DgRest /\ UNCHANGED pc

\* lines 254-258
CloseAwaitReceive ==
    /\ pc = "cl_receive" /\ TaskFinished(dg.receive_task)
    /\ pc' = "cl_ws"
    /\ UNCHANGED dg
    /\ DgRest

\* lines 260-270
CloseSocket ==
    /\ pc = "cl_ws"
    /\ dg' = [dg EXCEPT !.ws = "none", !.buffer = <<>>]
    /\ pc' = "closed"
    /\ DgRest

\* voice.py lines 536-544: the next turn gets a new client
NextClient ==
    /\ pc = "closed"
    /\ dg' = NewClient
    /\ pc' = "new"
    /\ DgRest

NextDg ==
    \/ \E ok \in BOOLEAN : Connect(ok)
    \/ SendAudioCall
    \/ SendAudioAcquire
    \/ SendAudioSent
    \/ FinishStreamCall
    \/ FinishFlushAcquire
    \/ FinishFlushSent
    \/ FinishCloseStream
    \/ FinishGraceOver
    \/ ReadTranscript
    \/ FlushWake
    \/ FlushAcquire
    \/ FlushSent
    \/ \E is_final \in BOOLEAN : ReceiveResult(is_final)
    \/ UpstreamClosed
    \/ ReceiveLoopEnds
    \/ CloseCall
    \/ \E sent \in BOOLEAN : BufferTaskCancelled(sent)
    \/ CloseAwaitBuffer
    \/ ReceiveTaskCancelled
    \/ CloseAwaitReceive
    \/ CloseSocket
    \/ NextClient

SpecDg == InitDg /\ [][NextDg]_vars

\* a task is between reading the buffer for a send and clearing it
CallerInWindow == pc \in {"sa_sending", "fs_sending"}
TaskInWindow == dg.buffer_task = "sending"

\* C26: the buffer sections of send_audio and _flush_buffer never
\* interleave: the handler task and the flush task are never both between
\* reading the buffer for an upstream send and clearing it, and while either
\* is there the buffer is what was read and no chunk is appended to it.
C26_BufferSectionsSerialized ==
    /\ [](~(CallerInWindow /\ TaskInWindow))
    /\ [](CallerInWindow => dg.buffer = dg.snapshot)
    /\ [](TaskInWindow => dg.buffer = dg.task_snapshot)
    /\ [][(CallerInWindow \/ TaskInWindow) => dg'.accepted = dg.accepted]_vars

\* send_audio waits for the lock while the flush task is sending
C26_Witness == pc = "sa_wait_lock" /\ TaskInWindow /\ dg.pending # 0


\* C27: close cancels the flush task and the receive task and closes the
\* upstream socket only when both have ended; once close has returned no
\* task of the client is running, the buffer is empty, is_connected is
\* false and the socket is released, whatever state close was called in.
C27_CloseWaitsForTasks ==
    /\ [][(pc = "cl_ws" /\ pc' = "closed") =>
             ~Running(dg.buffer_task) /\ ~Running(dg.receive_task)]_vars
    /\ [](pc = "closed" =>
             /\ ~Running(dg.buffer_task) /\ ~Running(dg.receive_task)
             /\ dg.buffer = <<>> /\ ~dg.is_connected /\ dg.ws = "none")

\* close has returned on a client that was draining: finish_stream had sent
\* CloseStream and waited, and both tasks had been started
C27_Witness ==
    /\ pc = "closed" /\ dg.read /\ dg.waited
    /\ dg.buffer_task = "done" /\ dg.receive_task = "done"
    /\ Len(dg.accepted) > 0


\* the transcripts of the final results among the Results messages handled
FinalResults(results) ==
    LET finals == SelectSeq(results, LAMBDA r : r.is_final)
    IN  [i \in 1..Len(finals) |-> finals[i].no]

\* what was sent on the upstream socket
Sent(d) == {d.upstream[i] : i \in 1..Len(d.upstream)}

\* C28: on end_of_speech with a connected client, when CloseStream is sent
\* every chunk accepted by send_audio has been sent before it, in order;
\* the transcript is read only after the grace wait that follows
\* CloseStream; and the transcript read is the sequence, in arrival order,
\* of exactly the final results handled on the client up to then.
C28_FinishStreamTranscript ==
    /\ [](CloseStream \in Sent(dg) => dg.upstream = Append(dg.accepted, CloseStream))
    /\ [](dg.read /\ CloseStream \in Sent(dg) => dg.waited)
    /\ [][(pc = "fs_done" /\ pc' = "turn") =>
             dg'.final_transcript = FinalResults(dg.results)]_vars

\* a turn whose audio was partly sent at the threshold and partly flushed by
\* finish_stream, with an interim result before the final one
C28_Witness ==
    /\ pc = "turn" /\ dg.read /\ dg.waited
    /\ dg.upstream = <<1, 2, 3, CloseStream>>
    /\ Len(dg.results) = 2 /\ ~dg.results[1].is_final
    /\ dg.final_transcript = <<2>>


\* the step of the voice loop that sends the tool_result event of a call
\* whose result is a failure
FailedToolReported ==
    /\ endpoint = "voice" /\ pc = "tools" /\ wsAlive
    /\ turn.running # {} /\ turn'.running = {}
    /\ ~ExecuteTool(appts, user, NextCall(turn.batch, turn.k))[2].success

\* C29: when a tool fails, the tool_result event of the call reports a
\* failure status, the failure result is appended to the history as a tool
\* entry for that call, and the loop goes on with the next call or round.
C29_FailedToolReportedAsFailure ==
    [][FailedToolReported =>
         LET call == NextCall(turn.batch, turn.k)
             sent == events'[Len(events')]
             entry == appended'[sid][Len(appended'[sid])]
         IN  /\ Len(events') = Len(events) + 1
             /\ sent.type = "tool_result" /\ sent.tool_call_id = call.id
             /\ sent.status # "success"
             /\ Len(appended'[sid]) = Len(appended[sid]) + 1
             /\ entry.role = "tool" /\ entry.tool_call_id = call.id
             /\ ~entry.content.success
             /\ pc' \in {"tools", "llm"}]_vars


(***************************************************************************)
(* SpecBatch: the tool calls of one LLM response run on the store          *)
(***************************************************************************)
\* a loop that runs every call of the batch on the store as it was when the
\* response arrived
RECURSIVE RunBatchOnSnapshot(_, _, _)
RunBatchOnSnapshot(store, u, batch) ==
    IF batch = <<>> THEN <<store, <<>>>>
    ELSE LET first == ExecuteTool(store, u, batch[1])
             rest == RunBatchOnSnapshot(store, u, Tail(batch))
         IN  <<IF Len(batch) = 1 THEN first[1] ELSE rest[1], <<first[2]>> \o rest[2]>>

\* for tool_call in llm_response.tool_calls (voice.py lines 267-307): each
\* call runs on the store the calls before it left; <<store after, results>>
RECURSIVE RunBatch(_, _, _)
RunBatch(store, u, batch) ==
    IF batch = <<>> THEN <<store, <<>>>>
    ELSE LET first == ExecuteTool(store, u, batch[1])
             rest == RunBatch(first[1], u, Tail(batch))
         IN  <<rest[1], <<first[2]>> \o rest[2]>>

\* date and time arguments of the calls of a batch
BatchDates == { Today }
BatchTimes == { TwoPm, Fourteen, [hour |-> 9, minute |-> -1, mer |-> "am", junk |-> FALSE] }

\* calls that may follow a cancel_appointment in a response
LaterCalls ==
    { Call("book_appointment", d, t, 0) : d \in BatchDates, t \in BatchTimes }
      \cup { Call("modify_appointment", nd, nt, j) :
                 nd \in BatchDates \cup {NoArg}, nt \in BatchTimes \cup {NoTime},
                 j \in ApptIds }
      \cup { Call("fetch_slots", d, NoTime, 0) : d \in BatchDates }

\* responses with a cancel_appointment followed by another call
CancelBatches ==
    { <<Call("cancel_appointment", NoArg, NoTime, id), later>> :
          id \in ApptIds, later \in LaterCalls }

run_batch(u, batch) ==
    /\ LET ran == RunBatch(appts, u, batch)
       IN  /\ Len(ran[1]) <= MaxAppts
           /\ appts' = ran[1]
           /\ lastResult' = ran[2][Len(batch)]
    /\ UNCHANGED <<summaries, txVars, redisVars, connVars>>

NextBatch == \E u \in Users, batch \in CancelBatches : run_batch(u, batch)

SpecBatch == InitTools /\ [][NextBatch]_vars

\* the later call of a batch asks for the slot (date, time)
AsksSlot(store, u, call, date, time) ==
    CASE call.name = "book_appointment" ->
             ParseDate(call.date) = date /\ NormalizeTime(call.time) = time
      [] call.name = "modify_appointment" ->
             /\ ModifyArgsError(store, u, call.appointment_id, call.date, call.time) = ""
             /\ TargetDate(store[call.appointment_id], call.date) = date
             /\ TargetTime(store[call.appointment_id], call.time) = time
      [] call.name = "fetch_slots" -> ParseDate(call.date) = date
      [] OTHER -> FALSE

\* C30: the effect of a tool call is visible to the later calls of the same
\* response: when the cancel_appointment of a batch succeeds on the
\* appointment that holds the catalog slot (d, t), a later book_appointment
\* of (d, t) or modify_appointment to (d, t) in the batch succeeds and a
\* later fetch_slots(d) lists t among the available slots.
C30_BatchSeesEarlierCalls ==
    \A u \in Users, batch \in CancelBatches :
        LET id == batch[1].appointment_id
            later == batch[Len(batch)]
            results == RunBatch(appts, u, batch)[2]
        IN  (/\ id \in DOMAIN appts
             /\ appts[id].time \in AVAILABLE_SLOTS
             /\ results[1].success
             /\ later.appointment_id # id
             /\ AsksSlot(appts, u, later, appts[id].date, appts[id].time))
            => /\ results[Len(batch)].success
               /\ later.name = "fetch_slots" =>
                      appts[id].time \in results[Len(batch)].available_slots

\* a batch has cancelled the appointment of a slot and moved another
\* appointment of the user to it
C30_Witness ==
    /\ Len(appts) = 2 /\ lastResult = Ok(2)
    /\ appts[1].status = "cancelled" /\ appts[2].status = "scheduled"
    /\ appts[1].user_id = appts[2].user_id
    /\ appts[1].date = appts[2].date /\ appts[1].time = appts[2].time


(***************************************************************************)
(* SpecParse: tool calls written as text in a response of the LLM proxy    *)
(* (parse_text_tool_calls, clean_response_for_speech, chat_completions)    *)
(***************************************************************************)
\* a response text as the pieces the regular expressions tell apart:
\* "<function=", a run of word characters, "=", ">", a brace group
\* {[^}]+}, "</function>", and other text
Open == [kind |-> "open"]
Word(name) == [kind |-> "word", name |-> name]
Eq == [kind |-> "eq"]
Gt == [kind |-> "gt"]
CloseTag == [kind |-> "close"]
Words(text) == [kind |-> "text", text |-> text]

\* the "}" that [^}]+ leaves behind when the arguments hold a nested object
BraceEnd == [kind |-> "brace_end"]

\* a brace group: whether json.loads accepts it, the arguments it then
\* gives, and whether it starts with {"key":
Braces(json, quoted, date, time, appt) ==
    [kind |-> "braces", json |-> json, quoted |-> quoted,
     date |-> date, time |-> time, appointment_id |-> appt]

TodayArgs == Braces(TRUE, TRUE, Today, NoTime, 0)           \* {"date": "today"}
UnquotedArgs == Braces(FALSE, FALSE, Today, NoTime, 0)      \* {date: today}
NestedArgs == Braces(FALSE, TRUE, Today, NoTime, 0)         \* {"filter": {"date": "today"}
CancelArgs == Braces(TRUE, TRUE, NoArg, NoTime, 1)          \* {"appointment_id": 1}

KindAt(text, i) == IF i \in DOMAIN text THEN text[i].kind ELSE "end"

\* tokens one of the three patterns of lines 111-115 matches at position i
\* (0 = no match) and the position of its brace group
MatchLen(pattern, text, i) ==
    IF KindAt(text, i) # "open" \/ KindAt(text, i + 1) # "word" THEN 0
    ELSE CASE pattern = 1 ->
                  IF /\ KindAt(text, i + 2) = "gt" /\ KindAt(text, i + 3) = "braces"
                     /\ KindAt(text, i + 4) = "close"
                  THEN 5 ELSE 0
           [] pattern = 2 ->
                  LET b == IF KindAt(text, i + 2) = "eq" THEN i + 3 ELSE i + 2
                  IN  IF KindAt(text, b) # "braces" THEN 0
                      ELSE IF KindAt(text, b + 1) = "gt" THEN b + 2 - i ELSE b + 1 - i
           [] OTHER ->
                  IF KindAt(text, i + 2) # "braces" THEN 0
                  ELSE IF KindAt(text, i + 3) = "gt" THEN 4 ELSE 3

BracesAt(pattern, text, i) ==
    IF pattern = 1 THEN i + 3
    ELSE IF pattern = 2 /\ KindAt(text, i + 2) = "eq" THEN i + 3
    ELSE i + 2

\* json.loads of the brace group, {} when it raises (lines 121-124), and the
\* ToolCall built from it (lines 126-130)
ParsedCall(name, braces) ==
    IF braces.json THEN Call(name, braces.date, braces.time, braces.appointment_id)
    ELSE Call(name, NoArg, NoTime, 0)

ParsedCalls(name, braces) == << ParsedCall(name, braces) >>

\* re.findall(pattern, content) from position i on, as ToolCalls
RECURSIVE FindAll(_, _, _)
FindAll(pattern, text, i) ==
    IF i > Len(text) THEN <<>>
    ELSE LET n == MatchLen(pattern, text, i)
         IN  IF n = 0 THEN FindAll(pattern, text, i + 1)
             ELSE ParsedCalls(text[i + 1].name, text[BracesAt(pattern, text, i)])
                      \o FindAll(pattern, text, i + n)

\* the expression of line 133 at position i:
\* <function=\w+[=>]?\{[^}]+\}>?(?:</function>)?
SyntaxLen(text, i) ==
    IF KindAt(text, i) # "open" \/ KindAt(text, i + 1) # "word" THEN 0
    ELSE LET b == IF KindAt(text, i + 2) \in {"eq", "gt"} THEN i + 3 ELSE i + 2
             g == IF KindAt(text, b + 1) = "gt" THEN b + 2 ELSE b + 1
         IN  IF KindAt(text, b) # "braces" THEN 0
             ELSE IF KindAt(text, g) = "close" THEN g + 1 - i ELSE g - i

RECURSIVE RemoveSyntax(_, _)
RemoveSyntax(text, i) ==
    IF i > Len(text) THEN <<>>
    ELSE IF SyntaxLen(text, i) = 0 THEN <<text[i]>> \o RemoveSyntax(text, i + 1)
    ELSE RemoveSyntax(text, i + SyntaxLen(text, i))

\* for pattern in [pattern1, pattern2, pattern3] (lines 117-131)
FindAllPatterns(text) == FindAll(1, text, 1) \o FindAll(2, text, 1) \o FindAll(3, text, 1)

\* parse_text_tool_calls on the pieces of a text: <<clean content, calls>>
ParseTextToolCallsIn(text) == << RemoveSyntax(text, 1), FindAllPatterns(text) >>


\* first position from i on whose piece has one of the kinds (0 = none)
RECURSIVE FirstOf(_, _, _)
FirstOf(kinds, text, i) ==
    IF i > Len(text) THEN 0
    ELSE IF text[i].kind \in kinds THEN i
    ELSE FirstOf(kinds, text, i + 1)

\* <function[^>]*>.*?(?:</function>|$) with DOTALL (line 143): from a
\* "<function" to the first "</function>" after its first ">", or to the end
RECURSIVE RemoveTags(_, _)
RemoveTags(text, i) ==
    IF i > Len(text) THEN <<>>
    ELSE IF text[i].kind # "open" \/ FirstOf({"gt", "close"}, text, i + 1) = 0
    THEN <<text[i]>> \o RemoveTags(text, i + 1)
    ELSE LET c == FirstOf({"close"}, text, FirstOf({"gt", "close"}, text, i + 1) + 1)
         IN  IF c = 0 THEN <<>> ELSE RemoveTags(text, c + 1)

\* \{"[^"]+":.*?\} (line 145): brace groups that start with a quoted key
RemoveJson(text) == SelectSeq(text, LAMBDA p : ~(p.kind = "braces" /\ p.quoted))

\* clean_response_for_speech on the pieces of a text
CleanForSpeech(text) == RemoveJson(RemoveTags(text, 1))

\* the pieces of the fallback sentence of line 345
NoResponsePieces == << Words(NoResponseText) >>

\* contents of a response without structured tool calls: plain text, one
\* call in each of the three syntaxes, with and without text around it and
\* the closing ">", and calls whose arguments are no JSON object
ResponseTexts ==
    { << Words("Done.") >>,
      << Open, Word("fetch_slots"), Gt, TodayArgs, CloseTag >>,
      << Words("Let me check."), Open, Word("fetch_slots"), Gt, TodayArgs, CloseTag >>,
      << Open, Word("cancel_appointment"), Eq, CancelArgs, Gt >>,
      << Open, Word("fetch_slots"), TodayArgs, Gt >>,
      << Open, Word("cancel_appointment"), CancelArgs >>,
      << Words("One moment."), Open, Word("cancel_appointment"), Gt, UnquotedArgs, CloseTag >>,
      << Open, Word("fetch_slots"), Gt, NestedArgs, BraceEnd, CloseTag >> }

\* one round of the loop of chat_completions (llm_proxy.py 275-349) on a
\* response that carries text and no structured tool calls
ProxyTextRound(text) ==
    /\ endpoint = "proxy" /\ pc = "llm"
    /\ LoopContinues(turn.iteration, PROXY_MAX_TOOL_ITERATIONS)
    /\ LET has_tag == \E i \in DOMAIN text : text[i].kind = "open"
           parsed == IF user # 0 /\ has_tag THEN ParseTextToolCallsIn(text) ELSE <<text, <<>>>>
           tool_calls_to_execute == parsed[2]
           response_content == IF parsed[2] # <<>> THEN parsed[1] ELSE text
           calls == WithIds(tool_calls_to_execute, Len(llm_messages))
           counted == [turn EXCEPT
                          !.iteration = @ + 1, !.rounds = @ + 1,
                          !.prompt_tokens = @ + UsageGet("input_tokens", "prompt_tokens", 12),
                          !.completion_tokens = @ + UsageGet("input_tokens", "completion_tokens", 7)]
       IN  IF tool_calls_to_execute # <<>> /\ user # 0
           THEN /\ llm_messages' = Append(llm_messages,
                                          Message("assistant", response_content, calls, NoId, ""))
                /\ turn' = [counted EXCEPT !.batch = calls, !.k = 0, !.executed = <<>>,
                                           !.base = Len(llm_messages')]
                /\ pc' = "tools"
                /\ UNCHANGED answer
           ELSE /\ answer' = [text |-> CleanForSpeech(IF response_content # <<>>
                                                      THEN response_content
                                                      ELSE NoResponsePieces),
                              should_end_call |-> FALSE]
                /\ turn' = counted
                /\ pc' = "respond"
                /\ UNCHANGED llm_messages
    /\ UNCHANGED <<storeVars, txVars, redisVars, endpoint, sid, user, wsAlive, closeCode,
                   cause, events, msg, dg, audio_started>>

\* the texts a response may carry in round n of a request: any of them in
\* the first round, a plain answer or the same call again after that
RoundTexts(n) ==
    IF n = 1 THEN ResponseTexts
    ELSE { << Words("Done.") >>, << Open, Word("fetch_slots"), Gt, TodayArgs, CloseTag >> }

\* a request to the proxy has arrived; the answer is a text in pieces
InitParse ==
    /\ appts = << Row(1, TodayDate, <<14, 0>>, "scheduled") >>
    /\ lastResult = NoResult
    /\ summaries = <<>>
    /\ InitWriters
    /\ InitRedis
    /\ endpoint = "proxy" /\ pc = "request" /\ wsAlive = FALSE
    /\ sid = "none" /\ user = 0 /\ closeCode = 0 /\ cause = "none"
    /\ events = <<>> /\ msg = NoMsg /\ dg = NoDg /\ audio_started = FALSE
    /\ turn = NoTurn
    /\ answer = [text |-> <<>>, should_end_call |-> FALSE]
    /\ llm_messages = <<>>

NextParse ==
    \/ \E has_user \in BOOLEAN, text \in TextInputs : ProxyRequest(has_user, text)
    \/ \E text \in RoundTexts(turn.iteration + 1) : ProxyTextRound(text)
    \/ ProxyTool
    \/ ProxyCapReached
    \/ ProxyReturn

SpecParse == InitParse /\ [][NextParse]_vars


\* the text holds a call in one of the accepted syntaxes whose brace group
\* json.loads rejects
HasUnparsableCall(text) ==
    \E i \in DOMAIN text : SyntaxLen(text, i) > 0 /\ \E b \in i..(i + 3) :
        KindAt(text, b) = "braces" /\ ~text[b].json

\* the text of a response outside its call markers
Prose(text) == SelectSeq(text, LAMBDA p : p.kind = "text")

\* the text holds exactly one call, in one of the accepted syntaxes
HasOneCall(text) ==
    /\ Cardinality({ i \in DOMAIN text : text[i].kind = "open" }) = 1
    /\ \E i \in DOMAIN text : SyntaxLen(text, i) > 0

\* C31: when the JSON arguments of a tool call embedded in the response text
\* cannot be parsed, the round executes no tool for it and the answer of the
\* request is the response text with the call markers removed.
C31_UnparsableCallNotExecuted ==
    [][\A text \in ResponseTexts :
           (HasUnparsableCall(text) /\ ProxyTextRound(text)) =>
               /\ pc' = "respond"
               /\ answer'.text = Prose(text)]_vars

\* C32: a tool call that occurs once in the response text, in any of the
\* three accepted syntaxes, yields exactly one parsed ToolCall, so the round
\* executes exactly one tool.
C32_OneCallParsedOnce ==
    [][\A text \in ResponseTexts :
           (user # 0 /\ HasOneCall(text) /\ ProxyTextRound(text)) =>
               /\ pc' = "tools"
               /\ Len(turn'.batch) = 1]_vars


(***************************************************************************)
(* SpecDate: _parse_date on a date written without a year                  *)
(***************************************************************************)
MaxDay == 8            \* calendar days of the year told apart
MaxClock == 1          \* times of day told apart: 0 is midnight sharp

Days == 1..MaxDay
Clocks == 0..MaxClock

\* datetime.now(), and the datetime strptime gives for "%B %d" and the like
\* once the year 1900 has been replaced: midnight of that day
Now(day, clock) == [day |-> day, clock |-> clock]
Midnight(day) == [day |-> day, clock |-> 0]

\* parsed < today on two datetimes of the same year
Earlier(a, b) == a.day < b.day \/ (a.day = b.day /\ a.clock < b.clock)

\* lines 533-543 for the formats without a year: the current year, or the
\* next one when the parsed datetime is before datetime.now()
ParseYearless(day, today) ==
    [year |-> IF Earlier(Midnight(day), today) THEN "next" ELSE "current", day |-> day]

parse_date(day, today) ==
    /\ lastResult' = [success |-> TRUE, error |-> "", appointment_id |-> 0,
                      asked |-> day, today |-> today, date |-> ParseYearless(day, today)]
    /\ UNCHANGED <<appts, summaries, txVars, redisVars, connVars>>

NextDate == \E day \in Days, d \in Days, clock \in Clocks : parse_date(day, Now(d, clock))

SpecDate == InitTools /\ [][NextDate]_vars

\* C33: a date without a year resolves to the current year when its
\* calendar day is today or later and to the next year only when the day
\* is strictly before today, at whatever time of day the call is made.
C33_YearlessDateRollsOnlyWhenPast ==
    "asked" \in DOMAIN lastResult =>
        lastResult.date.year =
            IF lastResult.asked < lastResult.today.day THEN "next" ELSE "current"


\* C34: a connection whose authentication is rejected leaves every session
\* record and every conversation history as it was; the session named in
\* the rejected auth message is neither removed nor altered.
C34_RejectedAuthLeavesStore ==
    [][(/\ endpoint = "voice" /\ pc = "accepted" /\ pc' = "done"
        /\ cause' \in {"rejected", "exception"})
       => sessions' = sessions /\ history' = history]_vars


(***************************************************************************)
(* SpecTwo: a second connection to /ws/voice, seen through the store: the  *)
(* handshake and the first message of another handler on the same server   *)
(***************************************************************************)
\* the handshake of another connection (voice.py lines 349-403), admitted
OtherAuthenticate(m, o) ==
    /\ endpoint = "voice" /\ pc = "accepted"
    /\ AuthFailure(m, o, sessions) = ""
    /\ ~sessions[m.session_id].ws_active
    /\ LET contact == DecodeToken(m.token, o).sub
       IN  /\ sessions' = MarkConnected(sessions, m.session_id, contact)
           /\ history' = InitConversation(history, m.session_id,
                                          PromptFor(UserByContact(contact)))
           /\ appended' = LogInit(appended, m.session_id,
                                  PromptFor(UserByContact(contact)))
    /\ UNCHANGED <<storeVars, txVars, costs, connVars>>

\* a text_input of the other connection: the user message of lines 699-700
OtherTextInput(s, text) ==
    /\ endpoint = "voice" /\ pc = "accepted"
    /\ sessions[s].ws_active /\ Len(history[s]) = 1
    /\ history' = AddMessage(history, s, Message("user", text, NoCalls, NoId, ""))
    /\ appended' = LogAdd(appended, s, Message("user", text, NoCalls, NoId, ""))
    /\ UNCHANGED <<storeVars, txVars, sessions, costs, connVars>>

\* another connection whose handshake fails after it has named a session: the
\* return or exception of lines 351-388, then the finally block of lines 753-768
\* (taken between two messages of the tracked connection)
OtherRejected(m, o) ==
    /\ endpoint = "voice" /\ pc \in {"accepted", "loop"}
    /\ m.type = "auth" /\ Truthy(m.session_id)
    /\ AuthFailure(m, o, sessions) # ""
    /\ sessions' = RemoveSession(sessions, m.session_id)
    /\ history' = RemoveConversation(history, m.session_id)
    /\ appended' = RemoveConversation(appended, m.session_id)
    /\ UNCHANGED <<storeVars, txVars, costs, connVars>>

NextTwo ==
    \/ \E m \in AuthMessages, o \in InvalidTokenOutcomes : OtherAuthenticate(m, o)
    \/ \E m \in AuthMessages, o \in InvalidTokenOutcomes : OtherRejected(m, o)
    \/ \E s \in SessionIds : OtherTextInput(s, "hello")
    \/ NextWS

SpecTwo == InitWS /\ [][NextTwo]_vars

\* C35: while one connection is bound to a session (ws_active set), a second
\* connection whose handshake names the same session id with credentials that
\* are otherwise accepted is not admitted to the message loop, and the session
\* record and the conversation history of that session stay as they were.
C35_OneConnectionPerSession ==
    [][(/\ endpoint = "voice" /\ pc = "accepted" /\ pc' # "accepted"
        /\ msg'.type = "auth" /\ msg'.session_id \in SessionIds
        /\ sessions[msg'.session_id].ws_active
        /\ cause' \notin {"rejected", "exception"})
       => /\ pc' # "loop"
          /\ sessions'[msg'.session_id] = sessions[msg'.session_id]
          /\ history'[msg'.session_id] = history[msg'.session_id]]_vars


(***************************************************************************)
(* SpecLoop: the add_message calls of the agent loop on one session, one   *)
(* call per step, in the order voice.py makes them                         *)
(***************************************************************************)
\* the response batches of a round: one call or two
LoopBatches ==
    { LoopBatch,
      << Call("cancel_appointment", NoArg, NoTime, 1),
         Call("book_appointment", Today, Fourteen, 0) >> }

Last(list) == list[Len(list)]

\* the ids of the tool calls of the last assistant entry with tool calls that
\* have no tool entry after it yet: the calls the for loop of line 267 still
\* has to run
PendingIds(log) ==
    LET requests == { j \in 1..Len(log) : log[j].role = "assistant" /\ log[j].tool_calls # NoCalls }
    IN  IF requests = {} THEN {}
        ELSE LET j == CHOOSE r \in requests : \A q \in requests : q <= r
             IN  { log[j].tool_calls[k].id : k \in 1..Len(log[j].tool_calls) }
                 \ { log[i].tool_call_id : i \in { t \in j + 1..Len(log) : log[t].role = "tool" } }

\* where the loop stands, read off the calls made so far
AwaitsUser(log) == log # <<>> /\ PendingIds(log) = {}
                   /\ (Last(log).role = "system"
                       \/ (Last(log).role = "assistant" /\ Last(log).tool_calls = NoCalls))
AwaitsLLM(log) == log # <<>> /\ PendingIds(log) = {} /\ Last(log).role \in {"user", "tool"}

\* lines 493 and 699: the user message of a turn
loop_user(s) ==
    /\ AwaitsUser(appended[s])
    /\ Len(appended[s]) < HistoryCap + MaxOverflow
    /\ history' = AddMessage(history, s, Message("user", "text", NoCalls, NoId, ""))
    /\ appended' = LogAdd(appended, s, Message("user", "text", NoCalls, NoId, ""))
    /\ UNCHANGED <<sessions, costs, storeVars, txVars, connVars>>

\* lines 247-264: the assistant message that carries the tool calls
loop_tool_calls(s, batch) ==
    /\ AwaitsLLM(appended[s])
    /\ Len(appended[s]) < MaxVaried
    /\ LET calls == WithIds(batch, Len(appended[s]))
           request == Message("assistant", "", calls, NoId, "")
       IN  /\ history' = AddMessage(history, s, request)
           /\ appended' = LogAdd(appended, s, request)
    /\ UNCHANGED <<sessions, costs, storeVars, txVars, connVars>>

\* lines 266-307: the tool message of the next call of the batch
loop_tool_result(s) ==
    /\ appended[s] # <<>> /\ PendingIds(appended[s]) # {}
    /\ Len(appended[s]) < HistoryCap + MaxOverflow
    /\ LET id == CHOOSE i \in PendingIds(appended[s]) :
                     \A q \in PendingIds(appended[s]) : i[2] <= q[2]
           entry == Message("tool", "result", NoCalls, id, "tool")
       IN  /\ history' = AddMessage(history, s, entry)
           /\ appended' = LogAdd(appended, s, entry)
    /\ UNCHANGED <<sessions, costs, storeVars, txVars, connVars>>

\* lines 314-322: the final answer of a turn
loop_answer(s) ==
    /\ AwaitsLLM(appended[s])
    /\ Len(appended[s]) < HistoryCap + MaxOverflow
    /\ history' = AddMessage(history, s, Message("assistant", "answer", NoCalls, NoId, ""))
    /\ appended' = LogAdd(appended, s, Message("assistant", "answer", NoCalls, NoId, ""))
    /\ UNCHANGED <<sessions, costs, storeVars, txVars, connVars>>

NextLoop ==
    \/ \E p \in SystemPrompts : appended[HistSession] = <<>> /\ init_conversation(HistSession, p)
    \/ loop_user(HistSession)
    \/ \E batch \in LoopBatches : loop_tool_calls(HistSession, batch)
    \/ loop_tool_result(HistSession)
    \/ loop_answer(HistSession)

SpecLoop == InitHist /\ [][NextLoop]_vars

\* entry i of the list is a tool result whose assistant entry is not before it
Orphan(list, i) ==
    /\ list[i].role = "tool"
    /\ ~ \E j \in 1..i - 1 :
           /\ list[j].role = "assistant"
           /\ \E k \in 1..Len(list[j].tool_calls) : list[j].tool_calls[k].id = list[i].tool_call_id

\* entry j is an assistant entry one of whose calls has no tool result between
\* it and a later user or assistant entry
Unanswered(list, j) ==
    /\ list[j].role = "assistant"
    /\ \E i \in j + 1..Len(list) :
           /\ list[i].role \in {"user", "assistant"}
           /\ \E k \in 1..Len(list[j].tool_calls) :
                  ~ \E t \in j + 1..i - 1 :
                        list[t].role = "tool" /\ list[t].tool_call_id = list[j].tool_calls[k].id

\* C36: in the stored history every tool-result entry is preceded by an
\* assistant entry, still in the list, whose tool_calls contain its
\* tool_call_id, and every assistant entry with tool calls is followed by their
\* tool-result entries before any later user or assistant entry; this holds
\* after every add_message, trimming included.
C36_ToolResultsPaired ==
    \A s \in SessionIds :
        \A i \in 1..Len(history[s]) : ~Orphan(history[s], i) /\ ~Unanswered(history[s], i)

\* C37: a conversation history list is in the store only while its session
\* record is: after the session record has been removed, no add_message of a
\* handler still working on that session id puts a history list back.
C37_HistoryOnlyWithSession ==
    \A s \in SessionIds : history[s] # <<>> => sessions[s].exists


\* C38: final-result text the transcription client has received during an
\* utterance becomes the user message of the turn that end_of_speech starts
\* and goes to the agent loop, also when the upstream connection has closed
\* or dropped before end_of_speech arrives.
C38_ReceivedTranscriptProcessed ==
    [][(/\ endpoint = "voice" /\ pc = "loop" /\ pc' \in {"llm", "respond"}
        /\ msg'.type = "end_of_speech"
        /\ Strip(dg.transcript) # "")
       => /\ pc' = "llm"
          /\ history'[sid] # <<>>
          /\ Last(history'[sid]) = Message("user", Strip(dg.transcript), NoCalls, NoId, "")]_vars

\* the audio payloads among what was sent on the upstream socket
AudioSent(d) == SelectSeq(d.upstream, LAMBDA payload : payload # CloseStream)

IsPrefix(a, b) == Len(a) <= Len(b) /\ a = SubSeq(b, 1, Len(a))

\* the handler is inside close
Closing == pc \in {"cl_buffer", "cl_receive", "cl_ws", "closed"}

\* C39: what has been sent upstream is a prefix of the chunks send_audio has
\* accepted, in acceptance order, and until close the accepted chunks not yet
\* sent are exactly the buffer: no accepted chunk is sent twice, reordered or
\* dropped, under every interleaving of send_audio with the flush task and
\* also after a send that failed and left the buffer in place.
C39_UpstreamIsPrefixOfAccepted ==
    /\ IsPrefix(AudioSent(dg), dg.accepted)
    /\ ~Closing => dg.accepted = AudioSent(dg) \o dg.buffer

\* a threshold send failed on a closed socket after an earlier flush by the
\* task had gone through: the two chunks are still buffered
C39_Witness ==
    /\ pc = "ready" /\ dg.lock = "free" /\ dg.ws = "closed"
    /\ dg.upstream = <<1>> /\ dg.buffer = <<2, 3>>

====
